---------------------------- MODULE Spec2Model ----------------------------
(***************************************************************************)
(* A model of the agent core of src/main.py: the reminder subsystem        *)
(* (detect_duplicate_reminders, should_show_reminders), the tool loop of   *)
(* chat_with_mistral and the finalize operation end_chat_and_summarize.    *)
(*                                                                         *)
(* Each subsystem has its own specification over the shared variables:     *)
(*   SpecDedupe    detect_duplicate_reminders applied to bounded lists     *)
(*   SpecThrottle  sequential should_show_reminders checks, with a clock   *)
(*   SpecLoop      one turn of chat_with_mistral, every model response     *)
(*   SpecChat      turns of chat_with_mistral and end_chat_and_summarize   *)
(*   SpecTeams     callers of two teams on the same conversations          *)
(*   SpecMemory    add_memory, search_memories and the automatic retrieval *)
(*   SpecTranscript  the transcript file over several turns and finalize   *)
(*   SpecDispatch  the dispatch of one tool call requested by the model    *)
(*   SpecReminders add_reminder and check_upcoming_reminders, with a clock *)
(*   SpecTime      the detection of a time of day in an utterance          *)
(*   SpecThreads   two turns on the same conversation id, interleaved      *)
(*   SpecNotify    the reminder list given to the model over several turns *)
(*   SpecRules     the rules of the portfolio and the rule engine          *)
(*   SpecMerge     the merge of the memory searches of a turn              *)
(*   SpecShowRace  should_show_reminders on two threads, one conversation    *)
(*   SpecUrgent    should_show_reminders around the urgent limit           *)
(*   SpecReminderIds  the ids of the reminders added, created and deleted    *)
(*   SpecFinalizeRace  end_chat_and_summarize on two threads, one conversation *)
(*   SpecListing   the reminders listed in a turn                            *)
(***************************************************************************)
EXTENDS Integers, Sequences, FiniteSets, TLC

VARIABLES
    \* --- detect_duplicate_reminders (pure function, applied by actions)
    ddIn,                   \* the input list
    ddOut,                  \* detect_duplicate_reminders(ddIn)
    ddOut2,                 \* detect_duplicate_reminders(ddOut)
    ddPc,                   \* "input", "once" (ddOut is set), "twice" (ddOut2 is set)
    \* --- should_show_reminders
    reminder_notifications, \* main.py:1877, chat_id -> tracker (or NoTracker)
    now,                    \* datetime.now(), in minutes
    lastCheck,              \* the last should_show_reminders call and its result
    \* --- chat_with_mistral and end_chat_and_summarize
    cfg,                    \* the configuration read at import (main.py:87-88, 338-351)
    active_chats,           \* main.py:1773, chat_id -> transcript (or absent)
    files,                  \* transcripts/<chat_id>.txt
    archive,                \* the conversation summaries indexed by the vector store
    turn,                   \* the turn in flight: its inputs and its loop counter
    lastCall,               \* the last completed request and what it returned
    finalized,              \* ids finalized with success, no turn on them since
    owner,                  \* the team of the caller whose turn created the conversation
    \* --- the memory store (add_memory, search_memories)
    stored,                 \* every Memory created so far; its index is its memory_id
    qdrant,                 \* the points of the vector store, each in its collection
    memories,               \* main.py:311, the in-memory fallback (memory ids)
    lastSearch,             \* the last search and the memory ids it returned
    \* --- the dispatch of a tool call (main.py:2640-2683)
    lastTool,               \* the last tool call dispatched and what the tool was passed
    \* --- the reminder store (add_reminder, check_upcoming_reminders)
    reminder_files,         \* reminders/team_<team_id>_reminders.json, team -> list
    lastUpcoming,           \* the last check_upcoming_reminders call and its result
    \* --- the detection of a time of day (detect_time_references, auto_update_portfolio)
    clock,                  \* datetime.now() as month, day, minute of the day, second
    lastDetect,             \* the last detection and the due timestamp it produced
    \* --- turns requested on several threads of the host process
    flights,                \* thread -> the position of its turn and its utterance
    \* --- the rule engine of the portfolio (check_user_portfolio_rules)
    portfolio_files,        \* <PORTFOLIOS_DIR>/user_<user_id>.json, its rules
    lastRule,               \* the last rule operation and what it returned
    \* --- the merge of the memory searches of a turn (main.py:2079-2109)
    lastMerge,              \* the last merge of memory searches and the list it produced
    \* --- should_show_reminders called on several threads of the host process
    checks,                 \* thread -> the position of its should_show_reminders call
    \* --- the ids of the reminders (add_reminder, delete_reminder)
    lastReminderOp,         \* the last add, automatic creation or delete of reminders
    \* --- end_chat_and_summarize called on several threads of the host process
    finalizers              \* thread -> the position of its end_chat_and_summarize call

ddVars == <<ddIn, ddOut, ddOut2, ddPc>>
thVars == <<reminder_notifications, now, lastCheck>>
chVars == <<cfg, active_chats, files, archive, turn, lastCall, finalized, owner>>
memVars == <<stored, qdrant, memories, lastSearch>>
toolVars == <<lastTool>>
remVars == <<reminder_files, lastUpcoming>>
timeVars == <<clock, lastDetect>>
concVars == <<flights>>
ruleVars == <<portfolio_files, lastRule>>
mergeVars == <<lastMerge>>
showVars == <<checks>>
idVars == <<lastReminderOp>>
finVars == <<finalizers>>
vars == <<ddIn, ddOut, ddOut2, ddPc, reminder_notifications, now, lastCheck,
          cfg, active_chats, files, archive, turn, lastCall, finalized, owner,
          stored, qdrant, memories, lastSearch, lastTool,
          reminder_files, lastUpcoming, clock, lastDetect,
          flights, portfolio_files, lastRule,
          lastMerge,
          checks,
          lastReminderOp,
          finalizers>>

\* Python's None, where the value is otherwise a number of minutes
None == -1

(***************************************************************************)
(* Strings are sequences of characters, so that lower(), strip() and the   *)
(* f-string concatenation are computed as Python computes them.            *)
(***************************************************************************)
Lower(s) == [i \in 1..Len(s) |-> IF s[i] = "A" THEN "a" ELSE s[i]]

RECURSIVE LStrip(_)
LStrip(s) == IF s # <<>> /\ Head(s) = " " THEN LStrip(Tail(s)) ELSE s

RECURSIVE RStrip(_)
RStrip(s) ==
    IF s # <<>> /\ s[Len(s)] = " " THEN RStrip(SubSeq(s, 1, Len(s) - 1)) ELSE s

Strip(s) == RStrip(LStrip(s))

\* main.py:3820-3821
NormTitle(r) == Strip(Lower(r.title))
NormDescription(r) == Strip(Lower(r.description))

\* main.py:3824   key = f"{title}_{description}"
ReminderKey(r) == NormTitle(r) \o <<"_">> \o NormDescription(r)

\* list.remove(x): drops the first element equal to x
RECURSIVE ListRemove(_, _)
ListRemove(s, x) ==
    IF s = <<>> THEN s
    ELSE IF Head(s) = x THEN Tail(s)
    ELSE <<Head(s)>> \o ListRemove(Tail(s), x)

\* main.py:3832   the test that decides whether the later reminder replaces
\* the one already seen under the same key
CloserThan(reminder, existing) == reminder.minutes_until < existing.minutes_until

\* main.py:3834-3835   the replacement of the existing reminder
ReplaceExisting(unique, existing, reminder) ==
    Append(ListRemove(unique, existing), reminder)

\* mutant of SeenAfterReplace: the replaced reminder stays the one seen
SeenAfterReplace_Stale(seen, key, reminder) == seen

\* main.py:3836   seen_reminders[key] = reminder
SeenAfterReplace(seen, key, reminder) == (key :> reminder) @@ seen

\* main.py:3819-3839   one iteration of the for loop; st = [seen, unique]
DedupeStep(st, reminder) ==
    LET key == ReminderKey(reminder) IN
    IF key \notin DOMAIN st.seen
    THEN [seen |-> (key :> reminder) @@ st.seen,
          unique |-> Append(st.unique, reminder)]
    ELSE LET existing == st.seen[key] IN
         IF CloserThan(reminder, existing)
         THEN [seen |-> SeenAfterReplace(st.seen, key, reminder),
               unique |-> ReplaceExisting(st.unique, existing, reminder)]
         ELSE st

RECURSIVE DedupeLoop(_, _)
DedupeLoop(st, rest) ==
    IF rest = <<>> THEN st
    ELSE DedupeLoop(DedupeStep(st, Head(rest)), Tail(rest))

\* main.py:3810-3841
detect_duplicate_reminders(reminders) ==
    IF reminders = <<>> THEN reminders
    ELSE DedupeLoop([seen |-> <<>>, unique |-> <<>>], reminders).unique

(***************************************************************************)
(* Bounded inputs of detect_duplicate_reminders.                           *)
(***************************************************************************)
MaxReminders == 3

Titles == {<<"a">>, <<"A", " ">>, <<"a", "_">>}
Descriptions == {<<>>, <<"_">>}
MinutesUntil == {10, 20, 40}

ReminderFields ==
    [title : Titles, description : Descriptions, minutes_until : MinutesUntil]

\* lists of reminders; the id of a reminder is its position in the list
ReminderLists ==
    UNION {[1..n -> ReminderFields] : n \in 0..MaxReminders}

WithIds(fs) ==
    [i \in 1..Len(fs) |->
        [id |-> i, title |-> fs[i].title, description |-> fs[i].description,
         minutes_until |-> fs[i].minutes_until]]

DedupeInit ==
    /\ ddIn \in {WithIds(fs) : fs \in ReminderLists}
    /\ ddOut = <<>>
    /\ ddOut2 = <<>>
    /\ ddPc = "input"

DedupeIdle ==
    /\ ddIn = <<>>
    /\ ddOut = <<>>
    /\ ddOut2 = <<>>
    /\ ddPc = "input"

\* a call detect_duplicate_reminders(ddIn)
RunDedupe ==
    /\ ddPc = "input"
    /\ ddOut' = detect_duplicate_reminders(ddIn)
    /\ ddPc' = "once"
    /\ UNCHANGED <<ddIn, ddOut2>>
    /\ UNCHANGED thVars
    /\ UNCHANGED memVars
    /\ UNCHANGED toolVars
    /\ UNCHANGED remVars
    /\ UNCHANGED timeVars
    /\ UNCHANGED concVars
    /\ UNCHANGED ruleVars
    /\ UNCHANGED mergeVars
    /\ UNCHANGED showVars
    /\ UNCHANGED idVars
    /\ UNCHANGED finVars
    /\ UNCHANGED chVars

\* a second call, on the output of the first
RunDedupeAgain ==
    /\ ddPc = "once"
    /\ ddOut2' = detect_duplicate_reminders(ddOut)
    /\ ddPc' = "twice"
    /\ UNCHANGED <<ddIn, ddOut>>
    /\ UNCHANGED thVars
    /\ UNCHANGED memVars
    /\ UNCHANGED toolVars
    /\ UNCHANGED remVars
    /\ UNCHANGED timeVars
    /\ UNCHANGED concVars
    /\ UNCHANGED ruleVars
    /\ UNCHANGED mergeVars
    /\ UNCHANGED showVars
    /\ UNCHANGED idVars
    /\ UNCHANGED finVars
    /\ UNCHANGED chVars

(***************************************************************************)
(* should_show_reminders: the per-conversation display throttle.           *)
(***************************************************************************)
ChatIds == {"c1", "c2"}

\* chat_id not in reminder_notifications
NoTracker == [present |-> FALSE, last_reminder_time |-> None, reminder_count |-> 0]
\* main.py:3773-3776
NewTracker == [present |-> TRUE, last_reminder_time |-> None, reminder_count |-> 0]

UrgentMinutes == 30       \* main.py:3781
MinGapMinutes == 10       \* main.py:3795
MaxShown == 3             \* main.py:3800

\* mutant of HasUrgent: the limit itself is not urgent
HasUrgent_Exclusive(upcoming) ==
    \E i \in 1..Len(upcoming) : upcoming[i] < UrgentMinutes

\* main.py:3781-3782   upcoming is the list of the candidates' minutes_until
HasUrgent(upcoming) == \E i \in 1..Len(upcoming) : upcoming[i] <= UrgentMinutes

\* mutant of FirstShown: the first show is not counted
FirstShown_Uncounted(tracking, current_time) ==
    [tracking EXCEPT !.last_reminder_time = current_time]

\* main.py:3788-3789
FirstShown(tracking, current_time) ==
    [tracking EXCEPT !.last_reminder_time = current_time, !.reminder_count = 1]

\* mutant of TooSoon: a check exactly 10 minutes later is still too soon
TooSoon_Inclusive(tracking, current_time) ==
    current_time - tracking.last_reminder_time <= MinGapMinutes

\* main.py:3794-3795
TooSoon(tracking, current_time) ==
    current_time - tracking.last_reminder_time < MinGapMinutes

\* mutant of LimitReached: one show too many
LimitReached_Late(tracking) == tracking.reminder_count > MaxShown

\* main.py:3800
LimitReached(tracking) == tracking.reminder_count >= MaxShown

\* main.py:3805-3806
Shown(tracking, current_time) ==
    [tracking EXCEPT !.last_reminder_time = current_time,
                     !.reminder_count = tracking.reminder_count + 1]

\* mutant of UrgentShown: an urgent show is recorded like any other
UrgentShown_Counted(tracking, current_time) ==
    [tracking EXCEPT !.last_reminder_time = current_time,
                     !.reminder_count = tracking.reminder_count + 1]

\* main.py:3782-3784   the urgent rule returns True before any write
UrgentShown(tracking, current_time) == tracking

\* main.py:3764-3808   returns [ret, notifs]: the returned boolean and the
\* tracker table after the call
should_show_reminders(notifs, chat_id, upcoming, current_time) ==
    IF upcoming = <<>> THEN [ret |-> FALSE, notifs |-> notifs]
    ELSE
    LET created == IF notifs[chat_id].present THEN notifs
                   ELSE [notifs EXCEPT ![chat_id] = NewTracker]
        tracking == created[chat_id]
    IN  IF HasUrgent(upcoming)
        THEN [ret |-> TRUE,
              notifs |-> [created EXCEPT ![chat_id] =
                            UrgentShown(tracking, current_time)]]
        ELSE IF tracking.last_reminder_time = None
        THEN [ret |-> TRUE,
              notifs |-> [created EXCEPT ![chat_id] =
                            FirstShown(tracking, current_time)]]
        ELSE IF TooSoon(tracking, current_time)
        THEN [ret |-> FALSE, notifs |-> created]
        ELSE IF LimitReached(tracking)
        THEN [ret |-> FALSE, notifs |-> created]
        ELSE [ret |-> TRUE,
              notifs |-> [created EXCEPT ![chat_id] = Shown(tracking, current_time)]]

(***************************************************************************)
(* Bounded inputs of should_show_reminders: candidate lists are lists of   *)
(* minutes_until values on both sides of the 30-minute limit; the clock    *)
(* runs up to MaxTime minutes.                                             *)
(***************************************************************************)
MaxTime == 30
MaxCandidates == 2
CandidateMinutes == {30, 31}
CandidateLists == UNION {[1..n -> CandidateMinutes] : n \in 0..MaxCandidates}

\* what the last call was given: no candidate, some candidate within the
\* urgent limit, or candidates that are all later than it
CheckKind(upcoming) ==
    IF upcoming = <<>> THEN "empty"
    ELSE IF \E i \in 1..Len(upcoming) : upcoming[i] <= UrgentMinutes THEN "urgent"
    ELSE "later"

NoCheck == [chat |-> "", kind |-> "none", ret |-> FALSE]

ThrottleIdle ==
    /\ reminder_notifications = [c \in ChatIds |-> NoTracker]
    /\ now = 0
    /\ lastCheck = NoCheck

\* a call should_show_reminders(chat_id, upcoming) at the current time
Check(chat_id, upcoming) ==
    LET r == should_show_reminders(reminder_notifications, chat_id, upcoming, now)
    IN  /\ reminder_notifications' = r.notifs
        /\ lastCheck' = [chat |-> chat_id, kind |-> CheckKind(upcoming), ret |-> r.ret]
        /\ UNCHANGED now
        /\ UNCHANGED ddVars
        /\ UNCHANGED memVars
        /\ UNCHANGED toolVars
        /\ UNCHANGED remVars
        /\ UNCHANGED timeVars
        /\ UNCHANGED concVars
        /\ UNCHANGED ruleVars
        /\ UNCHANGED mergeVars
        /\ UNCHANGED showVars
        /\ UNCHANGED idVars
        /\ UNCHANGED finVars
        /\ UNCHANGED chVars

\* time passes
Tick ==
    /\ now < MaxTime
    /\ now' = now + 1
    /\ UNCHANGED <<reminder_notifications, lastCheck>>
    /\ UNCHANGED ddVars
    /\ UNCHANGED memVars
    /\ UNCHANGED toolVars
    /\ UNCHANGED remVars
    /\ UNCHANGED timeVars
    /\ UNCHANGED concVars
    /\ UNCHANGED ruleVars
    /\ UNCHANGED mergeVars
    /\ UNCHANGED showVars
    /\ UNCHANGED idVars
    /\ UNCHANGED finVars
    /\ UNCHANGED chVars

(***************************************************************************)
(* chat_with_mistral and end_chat_and_summarize.                           *)
(*                                                                         *)
(* A message of a transcript is a dict ({"role", "content"}: the system,   *)
(* user and tool messages, and the simulated answers) or the message       *)
(* object of the model's response, which is appended as it is returned     *)
(* (main.py:2569-2570) and is read with getattr (main.py:1789-1795).       *)
(***************************************************************************)
max_iterations == 20          \* main.py:2556
AutoFinalizeLen == 20         \* main.py:2606

Content(t) == [text |-> t, enhanced |-> FALSE, padded |-> FALSE, reminders |-> FALSE]

DictMsg(role, content) ==
    [role |-> role, dict |-> TRUE, content |-> content, tool_calls |-> <<>>,
     tool_call_id |-> 0]

\* response.choices[0].message (main.py:2569)
ResponseMsg(resp) ==
    [role |-> "assistant", dict |-> FALSE, content |-> resp.content,
     tool_calls |-> resp.tool_calls, tool_call_id |-> 0]

\* main.py:2689-2693
ToolMsg(out) ==
    [role |-> "tool", dict |-> TRUE, content |-> out.output, tool_calls |-> <<>>,
     tool_call_id |-> out.tool_call_id]

NoChat == [present |-> FALSE, msgs |-> <<>>]
NoFile == [present |-> FALSE, lines |-> <<>>]

(***************************************************************************)
(* Identity.  A request carries no token, a token the identity service     *)
(* accepts, or one it rejects.                                             *)
(***************************************************************************)
Tokens == {"none", "db", "bad"}

\* main.py:2710-2719   extract_token_from_headers, the test token of
\* main.py:2713 when there is none, then verify_user_token (main.py:599-671)
FinalizeIdentity(tok) ==
    IF tok = "none" THEN [ok |-> TRUE, team_id |-> "test-team-123"]
    ELSE IF tok = "db" THEN [ok |-> TRUE, team_id |-> "team-a"]
    ELSE [ok |-> FALSE, team_id |-> ""]

\* main.py:1890-1904 with get_unified_team_context (main.py:212-248), for a
\* caller that passes no explicit user_id and team_id
TurnIdentity(tok) ==
    IF tok = "db" THEN [team_id |-> "team-a"]
    ELSE [team_id |-> "team-shared-global"]

(***************************************************************************)
(* end_chat_and_summarize.  ext is what the collaborators do during the    *)
(* call: the summary request, the write of the transcript file, and the    *)
(* store (absent, failing or working).  A collaborator behind a failing    *)
(* one is not reached, so it is left at its first value.                   *)
(***************************************************************************)
FinalizeExt ==
    {e \in [summary : {"ok", "raise"}, write : {"ok", "raise"},
            storage : {"none", "ok", "raise"}] :
        /\ e.summary = "raise" => e.write = "ok"
        /\ (e.summary = "raise" \/ e.write = "raise") => e.storage = "none"}

\* main.py:2732-2737   msg.get(...) on every message of the transcript: a
\* message that is not a dict has no get
AllDicts(msgs) == \A i \in 1..Len(msgs) : msgs[i].dict

\* main.py:2733-2737   conversation_text
ConversationText(msgs) ==
    [i \in 1..Len(msgs) |->
        [role |-> IF msgs[i].role = "user" THEN "Utilisateur" ELSE "Assistant",
         content |-> msgs[i].content]]

\* main.py:2775-2782 with store_conversation_summary (main.py:805-843): an
\* upsert keyed by the chat id in the team's collection
IndexSummary(arch, chat_id, team_id, msgs) ==
    {e \in arch : ~(e.chat = chat_id /\ e.team = team_id)}
        \cup {[chat |-> chat_id, team |-> team_id]}

\* mutant of RemoveChat: the conversation stays in the active table
RemoveChat_Kept(chats, chat_id) == chats

\* main.py:2789   del active_chats[chat_id]
RemoveChat(chats, chat_id) == [chats EXCEPT ![chat_id] = NoChat]

MistralAvailable == cfg = "on"

Returned(status, message, st) ==
    [status |-> status, message |-> message, chats |-> st.chats,
     files |-> st.files, archive |-> st.archive]

\* main.py:2706-2804   st = [chats, files, archive]; the result holds the
\* returned envelope (status "raised": an exception leaves the function) and
\* the three stores after the call
end_chat_and_summarize(st, chat_id, tok, ext) ==
    LET id == FinalizeIdentity(tok) IN
    IF ~id.ok THEN Returned("error", "token_invalid", st)
    ELSE IF ~st.chats[chat_id].present THEN Returned("error", "not_found", st)
    ELSE IF ~MistralAvailable THEN Returned("error", "mistral_unavailable", st)
    ELSE
    LET history == st.chats[chat_id].msgs IN
    IF ~AllDicts(history) THEN Returned("raised", "AttributeError", st)
    ELSE IF ext.summary = "raise" THEN Returned("error", "summary_failed", st)
    ELSE IF ext.write = "raise" THEN Returned("error", "summary_failed", st)
    ELSE
    LET written == [st.files EXCEPT ![chat_id] =
                       [present |-> TRUE, lines |-> ConversationText(history)]]
        indexed == IF ext.storage = "ok"
                   THEN IndexSummary(st.archive, chat_id, id.team_id, history)
                   ELSE st.archive
    IN  Returned("success", "finalized",
                 [chats |-> RemoveChat(st.chats, chat_id), files |-> written,
                  archive |-> indexed])

Stores == [chats |-> active_chats, files |-> files, archive |-> archive]

NoContent == Content("")
Idle == [pc |-> "idle", chat |-> "", um |-> "", tok |-> "none", i |-> 0]

Call(op, chat_id, tok, status, message) ==
    [op |-> op, chat |-> chat_id, tok |-> tok, status |-> status,
     message |-> message, response |-> NoContent, calls |-> 0,
     final |-> FALSE, modelRaised |-> FALSE, note |-> FALSE]

ChatInit ==
    /\ cfg \in {"on", "off", "noimport"}
    /\ active_chats = [c \in ChatIds |-> NoChat]
    /\ files = [c \in ChatIds |-> NoFile]
    /\ archive = {}
    /\ turn = Idle
    /\ lastCall = Call("none", "", "none", "", "")
    /\ finalized = {}
    /\ owner = [c \in ChatIds |-> ""]

ChatIdle == ChatInit /\ cfg = "on"

\* a request end_chat_and_summarize(chat_id), made while no turn is in flight
EndChat(chat_id, tok, ext) ==
    /\ turn.pc = "idle"
    /\ LET r == end_chat_and_summarize(Stores, chat_id, tok, ext) IN
       /\ active_chats' = r.chats
       /\ files' = r.files
       /\ archive' = r.archive
       /\ lastCall' = Call("end", chat_id, tok, r.status, r.message)
       /\ finalized' = IF r.status = "success" THEN finalized \cup {chat_id}
                       ELSE finalized
    /\ UNCHANGED <<cfg, turn, owner>>
    /\ UNCHANGED ddVars
    /\ UNCHANGED memVars
    /\ UNCHANGED toolVars
    /\ UNCHANGED remVars
    /\ UNCHANGED timeVars
    /\ UNCHANGED concVars
    /\ UNCHANGED ruleVars
    /\ UNCHANGED mergeVars
    /\ UNCHANGED showVars
    /\ UNCHANGED idVars
    /\ UNCHANGED finVars
    /\ UNCHANGED thVars

(***************************************************************************)
(* The turn.  TurnStart is chat_with_mistral up to the tool loop; ModelCall *)
(* is one iteration of the loop, with the return that ends the turn when   *)
(* the iteration is the last one.                                          *)
(***************************************************************************)
UserMessages == {"hello", "merci", "see conv_1", "at 25:99"}

\* main.py:2600-2601   a keyword of end_keywords occurs in the message
HasFarewell(um) == um = "merci"
\* main.py:2147 with detect_conversation_ids (main.py:3149-3155)
HasConvId(um) == um = "see conv_1"

\* main.py:450, 488-490   the text holds digits:digits that are not a time of
\* day, and datetime.replace raises ValueError
HasInvalidTime(text) == text = "at 25:99"

\* main.py:1813-1820   the text holds one of the marks of an enriched user
\* message
HasEnrichmentMark(text) == text = "Score: 5"
\* main.py:1800-1810   the lowered text holds one of the marks of a system
\* message
HasSystemMark(text) == text = "date: today"

\* main.py:2020-2061   the system message of a new conversation
SystemMsg(withReminders) ==
    DictMsg("system", [Content("system_prompt") EXCEPT !.reminders = withReminders])

\* main.py:2064-2144   the user message, with the retrieved context when the
\* store is available and returns hits
UserMsg(um, enh) == DictMsg("user", [Content(um) EXCEPT !.enhanced = enh])

\* main.py:2151-2152
SpecialInstruction == DictMsg("system", Content("special_instruction"))

\* main.py:2573-2588 and save_conversation_to_file (main.py:1775-1834): every
\* user message is written as the current user_message, system and tool
\* messages are left out, and so are the user and assistant messages that
\* hold a mark of enrichment or of a system message
RECURSIVE SavedLines(_, _)
SavedLines(msgs, um) ==
    IF msgs = <<>> THEN <<>>
    ELSE LET m == Head(msgs)
             rest == SavedLines(Tail(msgs), um)
         IN  IF m.role = "user" /\ ~HasEnrichmentMark(um)
             THEN <<[role |-> "Utilisateur", content |-> Content(um)]>> \o rest
             ELSE IF m.role = "assistant" /\ ~HasSystemMark(m.content.text)
             THEN <<[role |-> "Assistant", content |-> m.content]>> \o rest
             ELSE rest

save_conversation_to_file(fls, chat_id, msgs, um) ==
    [fls EXCEPT ![chat_id] = [present |-> TRUE, lines |-> SavedLines(msgs, um)]]

(***************************************************************************)
(* The responses of the model: a final answer (with or without surrounding *)
(* white space), or tool calls.                                            *)
(***************************************************************************)
ToolCall(id, name, args) ==
    [id |-> id, name |-> name, args |-> args, fails |-> FALSE, target |-> ""]

FinalResponses ==
    {[kind |-> "final", content |-> [Content("answer") EXCEPT !.padded = p],
      tool_calls |-> <<>>] : p \in BOOLEAN}

\* a final answer whose text holds a mark of a system message
MarkedResponse ==
    [kind |-> "final", content |-> Content("date: today"), tool_calls |-> <<>>]

ToolResponse(calls) == [kind |-> "tools", content |-> Content(""), tool_calls |-> calls]

\* one call of a registered tool, with well-formed arguments, that succeeds
PlainResponse == ToolResponse(<<ToolCall(1, "search_memories", "ok")>>)

OddResponses ==
    {ToolResponse(<<ToolCall(2, "search_memories", "ok"),
                    ToolCall(1, "search_memories", "ok")>>),
     ToolResponse(<<ToolCall(1, "unknown_tool", "ok")>>),
     ToolResponse(<<ToolCall(1, "search_memories", "missing")>>),
     ToolResponse(<<[ToolCall(1, "search_memories", "ok") EXCEPT !.fails = TRUE]>>)}
    \cup {ToolResponse(<<[ToolCall(1, "end_chat_and_summarize", "ok")
                            EXCEPT !.target = c]>>) : c \in ChatIds}

\* the arguments of the call are not JSON
MalformedResponse == ToolResponse(<<ToolCall(1, "search_memories", "malformed")>>)

RaisedResponse == [kind |-> "raise", content |-> Content(""), tool_calls |-> <<>>]

Responses ==
    FinalResponses \cup {PlainResponse, MalformedResponse, RaisedResponse}
        \cup OddResponses

\* main.py:4288-4317   the registry (the tools the model of the loop asks
\* for, and one tool for each way of declaring the identity parameters)
AvailableTools ==
    {"search_memories", "end_chat_and_summarize", "add_memory",
     "check_upcoming_reminders", "delete_all_reminders", "get_full_transcript"}

Envelope(call, text) == [tool_call_id |-> call.id, output |-> Content(text)]

\* main.py:2644-2683   one tool call whose arguments were parsed; the result
\* holds the tool output and the stores after the call
ExecuteTool(st, call, tok, ext) ==
    IF call.name \notin AvailableTools
    THEN [out |-> Envelope(call, "tool_error"), st |-> st]
    ELSE IF call.args = "missing" \/ call.fails
    THEN [out |-> Envelope(call, "tool_error"), st |-> st]
    ELSE IF call.name = "end_chat_and_summarize"
    THEN LET r == end_chat_and_summarize(st, call.target, tok, ext) IN
         IF r.status = "raised"
         THEN [out |-> Envelope(call, "tool_error"), st |-> st]
         ELSE [out |-> Envelope(call, r.message),
               st |-> [chats |-> r.chats, files |-> r.files, archive |-> r.archive]]
    ELSE [out |-> Envelope(call, "tool_result"), st |-> st]

\* main.py:2642   json.loads(tool_call.function.arguments) returns
ArgumentsParse(call) == call.args # "malformed"

\* main.py:2640-2683   the for loop over the tool calls; acc = [st, outs,
\* raised]: json.loads is outside the try, so arguments that are not JSON end
\* the loop with an exception
RECURSIVE RunTools(_, _, _, _)
RunTools(acc, calls, tok, ext) ==
    IF calls = <<>> THEN acc
    ELSE LET call == Head(calls) IN
         IF ~ArgumentsParse(call) THEN [acc EXCEPT !.raised = TRUE]
         ELSE LET e == ExecuteTool(acc.st, call, tok, ext) IN
              RunTools([st |-> e.st, outs |-> Append(acc.outs, e.out),
                        raised |-> FALSE], Tail(calls), tok, ext)

\* main.py:2687   a stable sort by tool_call_id
RECURSIVE InsertById(_, _)
InsertById(sorted, out) ==
    IF sorted = <<>> THEN <<out>>
    ELSE IF out.tool_call_id < Head(sorted).tool_call_id THEN <<out>> \o sorted
    ELSE <<Head(sorted)>> \o InsertById(Tail(sorted), out)

RECURSIVE SortById(_)
SortById(outs) ==
    IF outs = <<>> THEN <<>>
    ELSE InsertById(SortById(SubSeq(outs, 1, Len(outs) - 1)), outs[Len(outs)])

ToolMsgs(outs) == [k \in 1..Len(outs) |-> ToolMsg(SortById(outs)[k])]

\* main.py:2592   content.strip()
StripContent(content) == [content EXCEPT !.padded = FALSE]

\* main.py:2596-2613
ShouldFinalize(um, msgs) == HasFarewell(um) \/ Len(msgs) >= AutoFinalizeLen

\* main.py:2557   for i in range(max_iterations): another iteration follows
\* the one that ends with counter i
LoopContinues(i) == i + 1 < max_iterations

\* mutant of SimulationMode: the configuration is never tested
SimulationMode_Never(config) == FALSE

\* main.py:1914   not MISTRAL_ENABLED or not MISTRAL_API_KEY
SimulationMode(config) == config = "off"

\* mutant of RuleTriggered: the result of the rule engine is ignored
RuleTriggered_Never(rule) == FALSE

\* main.py:1945   rule: the rule engine (reflective_thinking_process,
\* main.py:4227-4236) reports a matching rule with its canned response
RuleTriggered(rule) == rule

\* main.py:1879-2152   chat_with_mistral(chat_id, user_message) up to the tool
\* loop.  rule: a portfolio rule matches the message; enh: the retrieval
\* returned context; upcoming: the minutes_until of the upcoming reminders
TurnStart(chat_id, um, tok, rule, enh, upcoming) ==
    /\ turn.pc = "idle"
    /\ UNCHANGED <<cfg, archive, files, now, lastCheck>>
    \* main.py:1919-1920, 2018-2061   the call creates the conversation
    /\ owner' = IF cfg \in {"on", "off"} /\ ~(cfg = "on" /\ RuleTriggered(rule))
                   /\ ~(cfg = "on" /\ HasInvalidTime(um))
                   /\ ~active_chats[chat_id].present
                THEN [owner EXCEPT ![chat_id] = TurnIdentity(tok).team_id]
                ELSE owner
    /\ UNCHANGED ddVars
    /\ UNCHANGED memVars
    /\ UNCHANGED toolVars
    /\ UNCHANGED remVars
    /\ UNCHANGED timeVars
    /\ UNCHANGED concVars
    /\ UNCHANGED ruleVars
    /\ UNCHANGED mergeVars
    /\ UNCHANGED showVars
    /\ UNCHANGED idVars
    /\ UNCHANGED finVars
    /\ IF SimulationMode(cfg)
       THEN \* main.py:1914-1927   the simulated answer
            /\ active_chats' =
                  [active_chats EXCEPT ![chat_id] =
                      [present |-> TRUE,
                       msgs |-> Append(active_chats[chat_id].msgs,
                                       DictMsg("assistant", Content("simulated")))]]
            /\ lastCall' = [Call("turn", chat_id, tok, "success", "test_simulation")
                               EXCEPT !.response = Content("simulated")]
            /\ finalized' = finalized \ {chat_id}
            /\ UNCHANGED <<turn, reminder_notifications>>
       ELSE IF cfg = "noimport"
       THEN \* main.py:1929-1931
            /\ lastCall' = Call("turn", chat_id, tok, "error", "mistral_unavailable")
            /\ UNCHANGED <<active_chats, finalized, turn, reminder_notifications>>
       ELSE IF RuleTriggered(rule)
       THEN \* main.py:1944-1954   the canned response of the rule
            /\ lastCall' = [Call("turn", chat_id, tok, "success", "portfolio_rule_triggered")
                               EXCEPT !.response = Content("canned")]
            /\ UNCHANGED <<active_chats, finalized, turn, reminder_notifications>>
       ELSE IF HasInvalidTime(um)
       THEN \* main.py:1939, 4252, 488-490   detect_time_references raises, outside
            \* every try of chat_with_mistral
            /\ lastCall' = Call("turn", chat_id, tok, "raised", "ValueError")
            /\ UNCHANGED <<active_chats, finalized, turn, reminder_notifications>>
       ELSE LET \* main.py:1982-1993
                shown == should_show_reminders(reminder_notifications, chat_id,
                                               upcoming, now)
                \* main.py:2017-2061
                history == IF active_chats[chat_id].present
                           THEN active_chats[chat_id].msgs
                           ELSE <<SystemMsg(shown.ret)>>
                \* main.py:2143-2152
                withUser == Append(history, UserMsg(um, enh))
                msgs == IF HasConvId(um) THEN Append(withUser, SpecialInstruction)
                        ELSE withUser
            IN  /\ reminder_notifications' = shown.notifs
                /\ active_chats' = [active_chats EXCEPT ![chat_id] =
                                       [present |-> TRUE, msgs |-> msgs]]
                /\ finalized' = finalized \ {chat_id}
                /\ turn' = [pc |-> "loop", chat |-> chat_id, um |-> um, tok |-> tok,
                            i |-> 0]
                /\ UNCHANGED lastCall

\* the return of the turn in flight
Finish(status, message, response, final, raised, note) ==
    /\ lastCall' = [op |-> "turn", chat |-> turn.chat, tok |-> turn.tok,
                    status |-> status, message |-> message, response |-> response,
                    calls |-> turn.i + 1, final |-> final, modelRaised |-> raised,
                    note |-> note]
    /\ turn' = Idle

\* main.py:2557-2704   one iteration of the tool loop: the model is called and
\* answers resp; ext is what the collaborators of end_chat_and_summarize do
\* if it is called in this iteration
ModelCall(resp, ext) ==
    /\ turn.pc = "loop"
    /\ UNCHANGED <<cfg, finalized, owner>>
    /\ UNCHANGED ddVars
    /\ UNCHANGED memVars
    /\ UNCHANGED toolVars
    /\ UNCHANGED remVars
    /\ UNCHANGED timeVars
    /\ UNCHANGED concVars
    /\ UNCHANGED ruleVars
    /\ UNCHANGED mergeVars
    /\ UNCHANGED showVars
    /\ UNCHANGED idVars
    /\ UNCHANGED finVars
    /\ UNCHANGED thVars
    /\ LET c == turn.chat IN
       IF resp.kind = "raise"
       THEN \* main.py:2561, 2702-2704   Mistral.chat.complete raises
            /\ Finish("error", "exception", NoContent, FALSE, TRUE, FALSE)
            /\ UNCHANGED <<active_chats, files, archive>>
       ELSE
       LET \* main.py:2569-2588
           msgs1 == Append(active_chats[c].msgs, ResponseMsg(resp))
           st1 == [chats |-> [active_chats EXCEPT ![c].msgs = msgs1],
                   files |-> save_conversation_to_file(files, c, msgs1, turn.um),
                   archive |-> archive]
       IN  IF resp.tool_calls = <<>>
           THEN \* main.py:2590-2632   the final answer
                IF ShouldFinalize(turn.um, msgs1)
                THEN LET r == end_chat_and_summarize(st1, c, turn.tok, ext) IN
                     /\ active_chats' = r.chats
                     /\ files' = r.files
                     /\ archive' = r.archive
                     /\ Finish("success", "answer", StripContent(resp.content),
                               TRUE, FALSE, r.status = "success")
                ELSE /\ active_chats' = st1.chats
                     /\ files' = st1.files
                     /\ archive' = st1.archive
                     /\ Finish("success", "answer", StripContent(resp.content),
                               TRUE, FALSE, FALSE)
           ELSE \* main.py:2634-2693   the tool calls
                LET ran == RunTools([st |-> st1, outs |-> <<>>, raised |-> FALSE],
                                    resp.tool_calls, turn.tok, ext)
                IN  /\ files' = ran.st.files
                    /\ archive' = ran.st.archive
                    /\ IF ran.raised \/ ~ran.st.chats[c].present
                       THEN \* main.py:2702-2704
                            /\ active_chats' = ran.st.chats
                            /\ Finish("error", "exception", NoContent, FALSE, FALSE,
                                      FALSE)
                       ELSE /\ active_chats' =
                                  [ran.st.chats EXCEPT ![c].msgs =
                                      ran.st.chats[c].msgs \o ToolMsgs(ran.outs)]
                            /\ IF LoopContinues(turn.i)
                               THEN /\ turn' = [turn EXCEPT !.i = turn.i + 1]
                                    /\ UNCHANGED lastCall
                               ELSE \* main.py:2695-2700
                                    Finish("error", "loop_exhausted", NoContent,
                                           FALSE, FALSE, FALSE)

(***************************************************************************)
(* Bounds on the inputs.  The responses of the model are inputs: in the    *)
(* specification of one turn (SpecLoop) the first MaxVariedRounds          *)
(* responses are arbitrary and the later ones are a final answer, a plain  *)
(* tool round, arguments that are not JSON, or an exception; in the        *)
(* specification of the conversation store (SpecChat) the model asks for   *)
(* tools in at most MaxToolRounds iterations of a turn, and a turn starts  *)
(* on a conversation that holds at most MaxStartLen messages; in the       *)
(* specification of the teams (SpecTeams) a turn starts on a conversation  *)
(* that holds at most MaxJoinLen messages.                                 *)
(***************************************************************************)
MaxVariedRounds == 1
MaxToolRounds == 1
MaxStartLen == 0
MaxJoinLen == 2

DefaultExt == [summary |-> "ok", write |-> "ok", storage |-> "ok"]

\* the collaborators of end_chat_and_summarize act only when it is called
ExtFor(resp) ==
    IF resp.kind = "final"
       \/ \E k \in 1..Len(resp.tool_calls) :
             resp.tool_calls[k].name = "end_chat_and_summarize"
    THEN FinalizeExt
    ELSE {DefaultExt}

(***************************************************************************)
(* get_full_transcript: the read of a transcript file.                     *)
(***************************************************************************)
\* main.py:3080-3102   (the chat ids of the model hold no path separator)
get_full_transcript(fls, chat_id) ==
    IF fls[chat_id].present
    THEN [status |-> "success", message |-> "transcript",
          transcript |-> fls[chat_id].lines]
    ELSE [status |-> "error", message |-> "transcript_not_found", transcript |-> <<>>]

\* a request get_full_transcript(chat_id) by a caller whose token is tok
ReadTranscript(chat_id, tok) ==
    /\ turn.pc = "idle"
    /\ LET r == get_full_transcript(files, chat_id) IN
       lastCall' = Call("read", chat_id, tok, r.status, r.message)
    /\ UNCHANGED <<cfg, active_chats, files, archive, turn, finalized, owner>>
    /\ UNCHANGED ddVars
    /\ UNCHANGED thVars
    /\ UNCHANGED memVars
    /\ UNCHANGED toolVars
    /\ UNCHANGED remVars
    /\ UNCHANGED timeVars
    /\ UNCHANGED concVars
    /\ UNCHANGED ruleVars
    /\ UNCHANGED mergeVars
    /\ UNCHANGED showVars
    /\ UNCHANGED idVars
    /\ UNCHANGED finVars

(***************************************************************************)
(* The memory store: add_memory and search_memories, over the vector store *)
(* (one collection per team) and the in-memory fallback.  A team id is a   *)
(* string, modelled as a sequence of characters, so that the name of the   *)
(* team's collection is computed as the code computes it.  The contents of *)
(* the memories overlap with every query, so that similarity never filters *)
(* a record out, and there are fewer memories than the limit of a search.  *)
(***************************************************************************)
TeamIds == {<<"t", "-", "a">>, <<"t", "_", "a">>, <<"t", "b">>}
UserIds == {"u1", "u2"}
Visibilities == {"team", "private"}

\* get_storage() returns None, or a store whose call works, or one whose
\* call raises
StorageModes == {"none", "ok", "raise"}

\* str.replace(old, new) for one-character strings
ReplaceChar(s, old, new) == [i \in 1..Len(s) |-> IF s[i] = old THEN new ELSE s[i]]

\* main.py:733
CleanTeamId(team_id) == ReplaceChar(ReplaceChar(team_id, "-", "_"), " ", "_")

\* main.py:730-734   QdrantStorage._get_collection_name
get_collection_name(team_id) == <<"team_memories_">> \o CleanTeamId(team_id)

\* main.py:1099, 1123-1132   the Memory that add_memory creates
NewMemory(memory_id, user_id, team_id, visibility) ==
    [memory_id |-> memory_id, user_id |-> user_id, team_id |-> team_id,
     visibility |-> visibility]

\* main.py:767-799   QdrantStorage.store_memory: the payload of the point has
\* no visibility
store_memory(points, memory, team_id) ==
    points \cup {[collection |-> get_collection_name(team_id),
                  memory_id |-> memory.memory_id, user_id |-> memory.user_id,
                  team_id |-> memory.team_id]}

\* main.py:1070-1155   st = [stored, qdrant, memories]
add_memory(st, user_id, team_id, visibility, mode) ==
    LET memory == NewMemory(Len(st.stored) + 1, user_id, team_id, visibility) IN
    IF mode = "ok"
    THEN [stored |-> Append(st.stored, memory),
          qdrant |-> store_memory(st.qdrant, memory, team_id),
          memories |-> st.memories]
    ELSE [stored |-> Append(st.stored, memory),
          qdrant |-> st.qdrant,
          memories |-> st.memories \cup {memory.memory_id}]

\* main.py:845-884   QdrantStorage.search_memories: the points of the team's
\* collection; an exception gives no result
QdrantSearch(points, team_id, mode) ==
    IF mode = "ok"
    THEN {pt.memory_id : pt \in {x \in points :
                                   x.collection = get_collection_name(team_id)}}
    ELSE {}

\* main.py:1194-1214   the search of the in-memory fallback
FallbackSearch(st, team_id) ==
    {id \in st.memories : st.stored[id].team_id = team_id}

\* main.py:1157-1223   the ids of the returned records
search_memories(st, team_id, mode) ==
    LET results == QdrantSearch(st.qdrant, team_id, mode) IN
    IF results = {} THEN FallbackSearch(st, team_id) ELSE results

\* main.py:2066-2080   the retrieval at the start of a turn
AutoRetrieval(st, team_id, mode) ==
    IF mode = "none" THEN {} ELSE QdrantSearch(st.qdrant, team_id, mode)

MemoryStores == [stored |-> stored, qdrant |-> qdrant, memories |-> memories]

NoSearch == [op |-> "none", user |-> "", team |-> <<>>, mode |-> "", results |-> {}]

MemoryIdle ==
    /\ stored = <<>>
    /\ qdrant = {}
    /\ memories = {}
    /\ lastSearch = NoSearch

MaxMemories == 2

\* a call add_memory(..., visibility, user_id, team_id) by a caller resolved
\* to (user_id, team_id)
AddMemory(user_id, team_id, visibility, mode) ==
    /\ Len(stored) < MaxMemories
    /\ LET st == add_memory(MemoryStores, user_id, team_id, visibility, mode) IN
       /\ stored' = st.stored
       /\ qdrant' = st.qdrant
       /\ memories' = st.memories
    /\ UNCHANGED lastSearch
    /\ UNCHANGED ddVars
    /\ UNCHANGED thVars
    /\ UNCHANGED chVars
    /\ UNCHANGED toolVars
    /\ UNCHANGED remVars
    /\ UNCHANGED timeVars
    /\ UNCHANGED concVars
    /\ UNCHANGED ruleVars
    /\ UNCHANGED mergeVars
    /\ UNCHANGED showVars
    /\ UNCHANGED idVars
    /\ UNCHANGED finVars

\* a call search_memories(query, user_id, team_id)
SearchMemories(user_id, team_id, mode) ==
    /\ lastSearch' = [op |-> "search", user |-> user_id, team |-> team_id,
                      mode |-> mode, results |-> search_memories(MemoryStores, team_id, mode)]
    /\ UNCHANGED <<stored, qdrant, memories>>
    /\ UNCHANGED ddVars
    /\ UNCHANGED thVars
    /\ UNCHANGED chVars
    /\ UNCHANGED toolVars
    /\ UNCHANGED remVars
    /\ UNCHANGED timeVars
    /\ UNCHANGED concVars
    /\ UNCHANGED ruleVars
    /\ UNCHANGED mergeVars
    /\ UNCHANGED showVars
    /\ UNCHANGED idVars
    /\ UNCHANGED finVars

\* the automatic retrieval of a turn of a caller resolved to (user_id, team_id)
Retrieve(user_id, team_id, mode) ==
    /\ lastSearch' = [op |-> "retrieval", user |-> user_id, team |-> team_id,
                      mode |-> mode, results |-> AutoRetrieval(MemoryStores, team_id, mode)]
    /\ UNCHANGED <<stored, qdrant, memories>>
    /\ UNCHANGED ddVars
    /\ UNCHANGED thVars
    /\ UNCHANGED chVars
    /\ UNCHANGED toolVars
    /\ UNCHANGED remVars
    /\ UNCHANGED timeVars
    /\ UNCHANGED concVars
    /\ UNCHANGED ruleVars
    /\ UNCHANGED mergeVars
    /\ UNCHANGED showVars
    /\ UNCHANGED idVars
    /\ UNCHANGED finVars

(***************************************************************************)
(* The reminder store.  A due date is a naive ISO timestamp, an ISO        *)
(* timestamp with a time zone, or a text that is not a date; times are in  *)
(* minutes.                                                                *)
(***************************************************************************)
ReminderTeams == {"team-a", "team-b"}
DueKinds == {"naive", "aware", "text"}

\* main.py:3586-3598   new_reminder
NewReminder(team_id, kind, at) ==
    [team_id |-> team_id, status |-> "active", due_kind |-> kind, due |-> at]

\* main.py:3709   round(time_diff_hours, 1), in tenths of an hour
HoursUntil(minutes) == (10 * minutes + 30) \div 60

\* main.py:3684-3701   the due date is parsed into a datetime
Parses(reminder) == reminder.due_kind \in {"naive", "aware"}

\* main.py:3704   due_date - current_time; a due date with a time zone minus
\* the naive datetime.now() raises TypeError
Subtracts(reminder) == reminder.due_kind = "naive"

\* main.py:3679-3716   the reminders kept by the loop, in stored order, with
\* hours_until and minutes_until
RECURSIVE UpcomingOf(_, _, _)
UpcomingOf(list, current_time, hours_ahead) ==
    IF list = <<>> THEN <<>>
    ELSE LET reminder == Head(list)
             rest == UpcomingOf(Tail(list), current_time, hours_ahead)
             diff == reminder.due - current_time
         IN  IF reminder.status # "active" THEN rest
             ELSE IF ~Parses(reminder) \/ ~Subtracts(reminder) THEN rest
             ELSE IF 0 <= diff /\ diff <= 60 * hours_ahead
             THEN <<[reminder |-> reminder, hours_until |-> HoursUntil(diff),
                     minutes_until |-> diff]>> \o rest
             ELSE rest

\* main.py:3718   sorted(upcoming, key=hours_until), a stable sort
RECURSIVE InsertByHours(_, _)
InsertByHours(sorted, r) ==
    IF sorted = <<>> THEN <<r>>
    ELSE IF r.hours_until < Head(sorted).hours_until THEN <<r>> \o sorted
    ELSE <<Head(sorted)>> \o InsertByHours(Tail(sorted), r)

RECURSIVE SortByHours(_)
SortByHours(list) ==
    IF list = <<>> THEN <<>>
    ELSE InsertByHours(SortByHours(SubSeq(list, 1, Len(list) - 1)), list[Len(list)])

\* main.py:3673-3718
check_upcoming_reminders(list, current_time, hours_ahead) ==
    SortByHours(UpcomingOf(list, current_time, hours_ahead))

NoUpcoming ==
    [op |-> "none", team |-> "", hours |-> 0, at |-> 0, loaded |-> <<>>,
     ret |-> <<>>]

ReminderIdle ==
    /\ reminder_files = [t \in ReminderTeams |-> <<>>]
    /\ lastUpcoming = NoUpcoming

\* main.py:3561-3613   add_reminder with a due date offset minutes from now
AddReminder(team_id, kind, offset) ==
    /\ reminder_files' = [reminder_files EXCEPT ![team_id] =
                        Append(@, NewReminder(team_id, kind, now + offset))]
    /\ UNCHANGED lastUpcoming
    /\ UNCHANGED ddVars
    /\ UNCHANGED thVars
    /\ UNCHANGED chVars
    /\ UNCHANGED memVars
    /\ UNCHANGED toolVars
    /\ UNCHANGED timeVars
    /\ UNCHANGED concVars
    /\ UNCHANGED ruleVars
    /\ UNCHANGED mergeVars
    /\ UNCHANGED showVars
    /\ UNCHANGED idVars
    /\ UNCHANGED finVars

\* main.py:3673-3718   a call check_upcoming_reminders(team_id, hours_ahead)
CheckUpcoming(team_id, hours_ahead) ==
    /\ lastUpcoming' =
          [op |-> "check", team |-> team_id, hours |-> hours_ahead, at |-> now,
           loaded |-> reminder_files[team_id],
           ret |-> check_upcoming_reminders(reminder_files[team_id], now, hours_ahead)]
    /\ UNCHANGED reminder_files
    /\ UNCHANGED ddVars
    /\ UNCHANGED thVars
    /\ UNCHANGED chVars
    /\ UNCHANGED memVars
    /\ UNCHANGED toolVars
    /\ UNCHANGED timeVars
    /\ UNCHANGED concVars
    /\ UNCHANGED ruleVars
    /\ UNCHANGED mergeVars
    /\ UNCHANGED showVars
    /\ UNCHANGED idVars
    /\ UNCHANGED finVars


(***************************************************************************)
(* The detection of a time of day.  A datetime is a month, a day of the    *)
(* month, a minute of the day and a second; a month has MonthDays days.    *)
(***************************************************************************)
MonthDays == 2
MinutesPerDay == 24 * 60

\* the seconds since the start of month 1
Seconds(dt) ==
    (((dt.month - 1) * MonthDays + dt.day - 1) * MinutesPerDay + dt.minute) * 60
        + dt.second

\* main.py:490, 4038   current_time.replace(hour, minute, second=0, microsecond=0)
ReplaceTime(dt, hhmm) == [dt EXCEPT !.minute = hhmm, !.second = 0]

\* main.py:492   target_time += timedelta(days=1)
AddDay(dt) ==
    IF dt.day < MonthDays THEN [dt EXCEPT !.day = dt.day + 1]
    ELSE [dt EXCEPT !.month = dt.month + 1, !.day = 1]

\* main.py:488-498   the target time of an HH:MM found by detect_time_references
detect_time_references(dt, hhmm) ==
    LET target_time == ReplaceTime(dt, hhmm) IN
    [raised |-> FALSE,
     target_time |-> IF Seconds(target_time) <= Seconds(dt)
                     THEN AddDay(target_time) ELSE target_time]

\* main.py:4037-4040   the due date of the reminder that auto_update_portfolio
\* adds for an HH:MM; replace(day=day + 1) raises ValueError after the last
\* day of the month
auto_update_portfolio(dt, hhmm) ==
    LET target_time == ReplaceTime(dt, hhmm) IN
    IF Seconds(target_time) <= Seconds(dt)
    THEN IF target_time.day + 1 > MonthDays
         THEN [raised |-> TRUE, target_time |-> target_time]
         ELSE [raised |-> FALSE,
               target_time |-> [target_time EXCEPT !.day = target_time.day + 1]]
    ELSE [raised |-> FALSE, target_time |-> target_time]

\* the times of day of the model: 00:00, 10:00, 14:30, 23:59
TimesOfDay == {0, 600, 870, 1439}

Datetimes ==
    [month : {1, 2}, day : 1..MonthDays, minute : TimesOfDay, second : {0, 30}]

NoDetect ==
    [op |-> "none", hhmm |-> 0, raised |-> FALSE,
     target_time |-> [month |-> 1, day |-> 1, minute |-> 0, second |-> 0]]

TimeIdle ==
    /\ clock = [month |-> 1, day |-> 1, minute |-> 0, second |-> 0]
    /\ lastDetect = NoDetect

TimeInit ==
    /\ clock \in Datetimes
    /\ lastDetect = NoDetect

\* detect_time_references on a text that holds the time of day hhmm
Detect(hhmm) ==
    /\ lastDetect' = [op |-> "detect", hhmm |-> hhmm]
                        @@ detect_time_references(clock, hhmm)
    /\ UNCHANGED clock
    /\ UNCHANGED ddVars
    /\ UNCHANGED thVars
    /\ UNCHANGED chVars
    /\ UNCHANGED memVars
    /\ UNCHANGED toolVars
    /\ UNCHANGED remVars
    /\ UNCHANGED concVars
    /\ UNCHANGED ruleVars
    /\ UNCHANGED mergeVars
    /\ UNCHANGED showVars
    /\ UNCHANGED idVars
    /\ UNCHANGED finVars

\* auto_update_portfolio on a message that holds the time of day hhmm
AutoReminder(hhmm) ==
    /\ lastDetect' = [op |-> "portfolio", hhmm |-> hhmm]
                        @@ auto_update_portfolio(clock, hhmm)
    /\ UNCHANGED clock
    /\ UNCHANGED ddVars
    /\ UNCHANGED thVars
    /\ UNCHANGED chVars
    /\ UNCHANGED memVars
    /\ UNCHANGED toolVars
    /\ UNCHANGED remVars
    /\ UNCHANGED concVars
    /\ UNCHANGED ruleVars
    /\ UNCHANGED mergeVars
    /\ UNCHANGED showVars
    /\ UNCHANGED idVars
    /\ UNCHANGED finVars


(***************************************************************************)
(* Turns requested on several threads of the host process (the chat        *)
(* interface calls chat_with_mistral from the thread of each session).     *)
(* chat_with_mistral takes no lock: the steps of a turn that read or write *)
(* active_chats interleave with those of the other thread.  The            *)
(* conversation is c1; each thread has its own utterance.                  *)
(***************************************************************************)
Threads == {1, 2}
MaxThreadLen == 5
ThreadChat == "c1"

UtteranceOf(t) == IF t = 1 THEN "hello" ELSE "see conv_1"
AnswerOf(t) ==
    [kind |-> "final",
     content |-> Content(IF t = 1 THEN "answer" ELSE "date: today"),
     tool_calls |-> <<>>]

NoFlight == [pc |-> "idle", found |-> FALSE]

FlightIdle == flights = [t \in Threads |-> NoFlight]

\* the steps of the other subsystems do not move
FlightFrame ==
    /\ UNCHANGED <<cfg, files, archive, turn, lastCall, finalized, owner>>
    /\ UNCHANGED ddVars
    /\ UNCHANGED thVars
    /\ UNCHANGED memVars
    /\ UNCHANGED toolVars
    /\ UNCHANGED remVars
    /\ UNCHANGED timeVars
    /\ UNCHANGED ruleVars
    /\ UNCHANGED mergeVars
    /\ UNCHANGED showVars
    /\ UNCHANGED idVars
    /\ UNCHANGED finVars

\* main.py:1879   the call is made
Begin(t) ==
    /\ flights[t].pc = "idle"
    /\ flights' = [flights EXCEPT ![t].pc = "lookup"]
    /\ UNCHANGED active_chats
    /\ FlightFrame

\* main.py:2018   if chat_id not in active_chats
Lookup(t) ==
    /\ flights[t].pc = "lookup"
    /\ flights' = [flights EXCEPT
                      ![t] = [pc |-> IF active_chats[ThreadChat].present
                                     THEN "append" ELSE "create",
                              found |-> active_chats[ThreadChat].present]]
    /\ UNCHANGED active_chats
    /\ FlightFrame

\* main.py:2019-2061   active_chats[chat_id] = [system message]
Create(t) ==
    /\ flights[t].pc = "create"
    /\ active_chats' = [active_chats EXCEPT ![ThreadChat] =
                           [present |-> TRUE, msgs |-> <<SystemMsg(FALSE)>>]]
    /\ flights' = [flights EXCEPT ![t].pc = "append"]
    /\ FlightFrame

\* main.py:2144   active_chats[chat_id].append(user message)
AppendUser(t) ==
    /\ flights[t].pc = "append"
    /\ active_chats' = [active_chats EXCEPT ![ThreadChat].msgs =
                           Append(@, UserMsg(UtteranceOf(t), FALSE))]
    /\ flights' = [flights EXCEPT ![t].pc = "call"]
    /\ FlightFrame

\* main.py:2561-2570, 2591-2632   the model answers and the answer is appended
Answer(t) ==
    /\ flights[t].pc = "call"
    /\ active_chats' = [active_chats EXCEPT ![ThreadChat].msgs =
                           Append(@, ResponseMsg(AnswerOf(t)))]
    /\ flights' = [flights EXCEPT ![t].pc = "returned"]
    /\ FlightFrame

\* the caller of the thread is ready for another turn
Rest(t) ==
    /\ flights[t].pc = "returned"
    /\ Len(active_chats[ThreadChat].msgs) < MaxThreadLen
    /\ flights' = [flights EXCEPT ![t] = NoFlight]
    /\ UNCHANGED active_chats
    /\ FlightFrame

(***************************************************************************)
(* The dispatch of one tool call of the model (main.py:2640-2683): the     *)
(* identity of the caller is written into the arguments of the tools of a  *)
(* fixed list, then the tool is called with the arguments as keywords.     *)
(***************************************************************************)
Absent == "absent"

\* the identity parameters a tool of the registry declares (main.py:1070-1077,
\* 1157-1162, 3720, 3907, 3080, 2706)
Declares(name) ==
    IF name \in {"search_memories", "add_memory"} THEN {"user_id", "team_id"}
    ELSE IF name = "check_upcoming_reminders" THEN {"team_id"}
    ELSE {}

\* the identity parameters without a default value (main.py:3720)
Required(name) == IF name = "check_upcoming_reminders" THEN {"team_id"} ELSE {}

\* main.py:2647   the names whose arguments receive the identity
InjectedTools ==
    {"search_memories", "add_memory", "list_memories", "delete_memory",
     "search_past_conversations", "get_user_portfolio_summary",
     "update_user_portfolio", "add_reminder", "check_upcoming_reminders_tool",
     "list_reminders", "delete_reminder", "delete_all_reminders"}

\* main.py:1890-1904 with get_unified_team_context (main.py:212-248)
CallerIdentity(tok) ==
    [user_id |-> IF tok = "db" THEN "user-a" ELSE "user_test_shared",
     team_id |-> TurnIdentity(tok).team_id]

\* the names the model asks for and the arguments it supplies
ToolNames == AvailableTools \cup {"unknown_tool"}
ModelArgs ==
    [user_id : {Absent, "user-model"}, team_id : {Absent, "team-model"},
     rest : {"ok", "missing"}]

\* main.py:2647-2649
function_args(name, args, identity) ==
    IF name \in InjectedTools
    THEN [args EXCEPT !.user_id = identity.user_id, !.team_id = identity.team_id]
    ELSE args

\* main.py:2652   available_tools[function_name](**function_args) raises
\* TypeError: a keyword the function does not declare, or a parameter without
\* default that is not given
RaisesTypeError(name, fargs) ==
    \/ fargs.rest = "missing"
    \/ \E p \in {"user_id", "team_id"} :
          \/ fargs[p] # Absent /\ p \notin Declares(name)
          \/ fargs[p] = Absent /\ p \in Required(name)

NoTool ==
    [op |-> "none", name |-> "", tok |-> "none", supplied |-> <<>>,
     passed |-> <<>>, executed |-> FALSE]

ToolIdle == lastTool = NoTool

\* main.py:2640-2683   one tool call of a response, requested in a turn of the
\* caller tok
Dispatch(name, args, tok) ==
    /\ lastTool' =
          IF name \notin AvailableTools
          THEN [op |-> "dispatch", name |-> name, tok |-> tok, supplied |-> args,
                passed |-> <<>>, executed |-> FALSE]
          ELSE LET fargs == function_args(name, args, CallerIdentity(tok)) IN
               [op |-> "dispatch", name |-> name, tok |-> tok, supplied |-> args,
                passed |-> fargs, executed |-> ~RaisesTypeError(name, fargs)]
    /\ UNCHANGED ddVars
    /\ UNCHANGED thVars
    /\ UNCHANGED chVars
    /\ UNCHANGED memVars
    /\ UNCHANGED remVars
    /\ UNCHANGED timeVars
    /\ UNCHANGED concVars
    /\ UNCHANGED ruleVars
    /\ UNCHANGED mergeVars
    /\ UNCHANGED showVars
    /\ UNCHANGED idVars
    /\ UNCHANGED finVars

(***************************************************************************)
(* The rule engine of the portfolio (check_user_portfolio_rules).  An      *)
(* utterance is a sequence of units: the word "quoi" in lower or in upper  *)
(* case, another letter, a space, a question mark.  The stored rules are   *)
(* the items of the dictionary response_patterns, in insertion order, so   *)
(* no pattern occurs twice.                                                *)
(***************************************************************************)
RuleUsers == {"u1"}
Units == {"quoi", "QUOI", "x", " ", "?"}
Patterns == {"ends_with_quoi", "contains_quoi", "exact_quoi", "x+", "x("}

\* str.lower() on the units
LowerUnits(s) == [i \in 1..Len(s) |-> IF s[i] = "QUOI" THEN "quoi" ELSE s[i]]

\* main.py:4192   re.sub(r'[\s\?\.!]+$', '', user_message)
RECURSIVE StripTail(_)
StripTail(s) ==
    IF s # <<>> /\ s[Len(s)] \in {" ", "?"}
    THEN StripTail(SubSeq(s, 1, Len(s) - 1))
    ELSE s

\* main.py:4190-4207   one branch of the loop body: does the pattern match
PatternMatches(pattern, user_message) ==
    IF pattern = "ends_with_quoi"
    THEN LET normalized_message == LowerUnits(StripTail(user_message))
         IN  normalized_message # <<>>
             /\ normalized_message[Len(normalized_message)] = "quoi"
    ELSE IF pattern = "contains_quoi"
    THEN \E i \in 1..Len(user_message) : LowerUnits(user_message)[i] = "quoi"
    ELSE IF pattern = "exact_quoi"
    THEN LowerUnits(Strip(user_message)) = <<"quoi">>
    ELSE IF pattern = "x+"
    THEN \E i \in 1..Len(user_message) : user_message[i] = "x"
    ELSE FALSE    \* "x(" does not compile: re.error, continue

NoRule == [matched |-> FALSE]
RuleResponse(response) == [matched |-> TRUE, response |-> response]

\* the loop returning the response of the last pattern that matches
RuleLoop_Last(response_patterns, user_message) ==
    LET hits == {k \in 1..Len(response_patterns) :
                    PatternMatches(response_patterns[k].pattern, user_message)}
    IN  IF hits = {} THEN NoRule
        ELSE RuleResponse(response_patterns[CHOOSE k \in hits :
                                              \A j \in hits : j <= k].response)

\* main.py:4189-4210   for pattern, response in response_patterns.items()
RECURSIVE RuleLoop(_, _)
RuleLoop(response_patterns, user_message) ==
    IF response_patterns = <<>> THEN NoRule
    ELSE IF PatternMatches(Head(response_patterns).pattern, user_message)
    THEN RuleResponse(Head(response_patterns).response)
    ELSE RuleLoop(Tail(response_patterns), user_message)

\* the portfolio file of a user: missing, unreadable, or holding the rules
NoPortfolio == [state |-> "missing", response_patterns |-> <<>>]
BrokenPortfolio == [state |-> "broken", response_patterns |-> <<>>]
Portfolio(response_patterns) ==
    [state |-> "saved", response_patterns |-> response_patterns]

\* main.py:3367-3420   load_user_portfolio: the file after the call (a
\* missing file is created with the default portfolio, whose
\* response_patterns is empty)
LoadedFile(file) == IF file.state = "missing" THEN Portfolio(<<>>) ELSE file

\* main.py:4176-4210   a broken file loads as {} and gives None
check_user_portfolio_rules(file, user_message) ==
    IF file.state = "broken" THEN NoRule
    ELSE RuleLoop(LoadedFile(file).response_patterns, user_message)

NoRuleCheck == [op |-> "none"]
RuleIdle ==
    /\ portfolio_files = [u \in RuleUsers |-> NoPortfolio]
    /\ lastRule = NoRuleCheck

RuleFrame ==
    /\ UNCHANGED ddVars
    /\ UNCHANGED thVars
    /\ UNCHANGED chVars
    /\ UNCHANGED memVars
    /\ UNCHANGED toolVars
    /\ UNCHANGED remVars
    /\ UNCHANGED timeVars
    /\ UNCHANGED concVars
    /\ UNCHANGED mergeVars
    /\ UNCHANGED showVars
    /\ UNCHANGED idVars
    /\ UNCHANGED finVars
    /\ UNCHANGED showVars
    /\ UNCHANGED idVars
    /\ UNCHANGED finVars
    /\ UNCHANGED idVars
    /\ UNCHANGED finVars
    /\ UNCHANGED finVars

\* main.py:3436-3478   update_user_portfolio with updates = {"rules":
\* {"response_patterns": value}}: the stored dictionary is replaced by value
\* (a missing file is created first, an unreadable one is written anew)
UpdateRules(user_id, value) ==
    /\ portfolio_files' = [portfolio_files EXCEPT ![user_id] = Portfolio(value)]
    /\ lastRule' = [op |-> "update", user_id |-> user_id]
    /\ RuleFrame

\* the file is damaged outside the program
BreakFile(user_id) ==
    /\ portfolio_files[user_id].state = "saved"
    /\ portfolio_files' = [portfolio_files EXCEPT ![user_id] = BrokenPortfolio]
    /\ lastRule' = [op |-> "break", user_id |-> user_id]
    /\ RuleFrame

CheckRules(user_id, user_message) ==
    /\ portfolio_files' =
          [portfolio_files EXCEPT ![user_id] = LoadedFile(@)]
    /\ lastRule' = [op |-> "check", user_id |-> user_id,
                    user_message |-> user_message,
                    before |-> portfolio_files[user_id],
                    ret |-> check_user_portfolio_rules(portfolio_files[user_id],
                                                       user_message)]
    /\ RuleFrame


(***************************************************************************)
(* The merge of the memory searches of a turn (main.py:2079-2109).  A hit  *)
(* is a record of the store with the similarity of the query that found    *)
(* it, in thousandths; the category belongs to the record.                 *)
(***************************************************************************)
MaxHits == 2
HitIds == 1..MaxHits
HitScores == {500, 800}
ExtraTerms == 3          \* "baptiste code", "baptiste flutter", "baptiste react"
TopHits == 5             \* memory_results[:5]

\* the payload of the record: its category
CategoryOf(memory_id) == IF memory_id = 1 THEN "work" ELSE "conversation_summary"
Hit(memory_id, score) ==
    [memory_id |-> memory_id, category |-> CategoryOf(memory_id),
     similarity_score |-> score]

\* main.py:2092-2106   priority_score (the summaries of the model are general)
priority_score(result) ==
    IF result.category \in {"work", "project", "code"}
    THEN result.similarity_score + 200
    ELSE IF result.category = "conversation_summary"
    THEN result.similarity_score - 100
    ELSE result.similarity_score

\* main.py:2087-2089   append the results whose memory_id is not yet listed
RECURSIVE MergeInto(_, _)
MergeInto(memory_results, additional_results) ==
    IF additional_results = <<>> THEN memory_results
    ELSE LET result == Head(additional_results)
             listed == \E k \in 1..Len(memory_results) :
                           memory_results[k].memory_id = result.memory_id
         IN  MergeInto(IF listed THEN memory_results
                       ELSE Append(memory_results, result),
                       Tail(additional_results))

\* main.py:2085-2089   for term in [...]: one search per term, merged in turn
RECURSIVE MergeAll(_, _)
MergeAll(memory_results, searches) ==
    IF searches = <<>> THEN memory_results
    ELSE MergeAll(MergeInto(memory_results, Head(searches)), Tail(searches))

\* main.py:2108   list.sort(key=priority_score, reverse=True): stable
RECURSIVE InsertByPriority(_, _)
InsertByPriority(sorted, result) ==
    IF sorted = <<>> THEN <<result>>
    ELSE IF priority_score(Head(sorted)) >= priority_score(result)
    THEN <<Head(sorted)>> \o InsertByPriority(Tail(sorted), result)
    ELSE <<result>> \o sorted

RECURSIVE SortByPriority(_)
SortByPriority(list) ==
    IF list = <<>> THEN <<>>
    ELSE InsertByPriority(SortByPriority(SubSeq(list, 1, Len(list) - 1)),
                          list[Len(list)])

\* main.py:2080-2109   the memories found for an utterance naming "baptiste"
merged_memory_results(primary, searches) ==
    LET sorted == SortByPriority(MergeAll(primary, searches))
    IN  SubSeq(sorted, 1, IF Len(sorted) < TopHits THEN Len(sorted) ELSE TopHits)

\* what one search returns: distinct records, the most similar first
SearchResults ==
    {s \in UNION {[1..n -> {Hit(id, sc) : id \in HitIds, sc \in HitScores}] :
                     n \in 0..MaxHits} :
        /\ \A a, b \in 1..Len(s) : a # b => s[a].memory_id # s[b].memory_id
        /\ \A a \in 1..(Len(s) - 1) :
              s[a].similarity_score >= s[a + 1].similarity_score}

NoMerge == [op |-> "none"]
MergeIdle == lastMerge = NoMerge

MergeFrame ==
    /\ UNCHANGED ddVars
    /\ UNCHANGED thVars
    /\ UNCHANGED chVars
    /\ UNCHANGED memVars
    /\ UNCHANGED toolVars
    /\ UNCHANGED remVars
    /\ UNCHANGED timeVars
    /\ UNCHANGED concVars
    /\ UNCHANGED ruleVars
    /\ UNCHANGED showVars
    /\ UNCHANGED idVars
    /\ UNCHANGED finVars
    /\ UNCHANGED idVars
    /\ UNCHANGED finVars
    /\ UNCHANGED finVars

RetrieveMemories(primary, searches) ==
    /\ lastMerge.op = "none"
    /\ lastMerge' = [op |-> "merge", primary |-> primary, searches |-> searches,
                     memory_results |-> merged_memory_results(primary, searches)]
    /\ MergeFrame


(***************************************************************************)
(* should_show_reminders called by the turns of several threads on the     *)
(* same conversation, with candidates that are all later than the urgent   *)
(* limit.  The function takes no lock; a step is a test or the writes that *)
(* follow it.                                                              *)
(***************************************************************************)
ShowChat == "c1"
NoShowCall == [pc |-> "idle", current_time |-> 0, shown |-> 0]
ShowIdle == checks = [t \in Threads |-> NoShowCall]

ShowFrame ==
    /\ UNCHANGED <<now, lastCheck>>
    /\ UNCHANGED ddVars
    /\ UNCHANGED chVars
    /\ UNCHANGED memVars
    /\ UNCHANGED toolVars
    /\ UNCHANGED remVars
    /\ UNCHANGED timeVars
    /\ UNCHANGED concVars
    /\ UNCHANGED ruleVars
    /\ UNCHANGED mergeVars
    /\ UNCHANGED idVars
    /\ UNCHANGED finVars
    /\ UNCHANGED finVars

\* main.py:3769-3778   current_time = datetime.now(); the tracker is created
\* if the conversation has none; tracking = reminder_notifications[chat_id]
ShowBegin(t) ==
    /\ checks[t].pc = "idle"
    /\ checks' = [checks EXCEPT ![t].pc = "first", ![t].current_time = now]
    /\ reminder_notifications' =
          IF reminder_notifications[ShowChat].present THEN reminder_notifications
          ELSE [reminder_notifications EXCEPT ![ShowChat] = NewTracker]
    /\ ShowFrame

\* main.py:3786   if tracking["last_reminder_time"] is None
ShowFirstTest(t) ==
    /\ checks[t].pc = "first"
    /\ checks' = [checks EXCEPT ![t].pc =
                     IF reminder_notifications[ShowChat].last_reminder_time = None
                     THEN "first_write" ELSE "gap"]
    /\ UNCHANGED reminder_notifications
    /\ ShowFrame

\* main.py:3787-3790   the first show is recorded; return True
ShowFirstWrite(t) ==
    /\ checks[t].pc = "first_write"
    /\ reminder_notifications' =
          [reminder_notifications EXCEPT ![ShowChat] =
              FirstShown(@, checks[t].current_time)]
    /\ checks' = [checks EXCEPT ![t].pc = "idle", ![t].shown = @ + 1]
    /\ ShowFrame

\* main.py:3793-3797   if time_since_last < 10: return False
ShowGapTest(t) ==
    /\ checks[t].pc = "gap"
    /\ checks' = [checks EXCEPT ![t].pc =
                     IF TooSoon(reminder_notifications[ShowChat],
                                checks[t].current_time)
                     THEN "idle" ELSE "limit"]
    /\ UNCHANGED reminder_notifications
    /\ ShowFrame

\* main.py:3800-3802   if tracking["reminder_count"] >= 3: return False
ShowLimitTest(t) ==
    /\ checks[t].pc = "limit"
    /\ checks' = [checks EXCEPT ![t].pc =
                     IF LimitReached(reminder_notifications[ShowChat])
                     THEN "idle" ELSE "update"]
    /\ UNCHANGED reminder_notifications
    /\ ShowFrame

\* main.py:3805-3808   the show is recorded; return True
ShowUpdate(t) ==
    /\ checks[t].pc = "update"
    /\ reminder_notifications' =
          [reminder_notifications EXCEPT ![ShowChat] =
              Shown(@, checks[t].current_time)]
    /\ checks' = [checks EXCEPT ![t].pc = "idle", ![t].shown = @ + 1]
    /\ ShowFrame

\* the minimum gap between two shows passes
ShowWait ==
    /\ now' = now + MinGapMinutes
    /\ UNCHANGED <<reminder_notifications, lastCheck, checks>>
    /\ UNCHANGED ddVars
    /\ UNCHANGED chVars
    /\ UNCHANGED memVars
    /\ UNCHANGED toolVars
    /\ UNCHANGED remVars
    /\ UNCHANGED timeVars
    /\ UNCHANGED concVars
    /\ UNCHANGED ruleVars
    /\ UNCHANGED mergeVars
    /\ UNCHANGED idVars
    /\ UNCHANGED finVars
    /\ UNCHANGED finVars


(***************************************************************************)
(* The ids of the reminders.  The id is the MD5 digest of the title, the   *)
(* due date and the user id put together; the digest is modelled as the    *)
(* triple itself, so that different triples never get the same id.         *)
(***************************************************************************)
\* main.py:3592   hashlib.md5(f"{title}{due_date}{user_id}".encode()).hexdigest()
ReminderId(title, due_date, user_id) == <<title, due_date, user_id>>

\* main.py:3588-3607   the list of the team after add_reminder
add_reminder(list, title, due_date, user_id) ==
    Append(list, [id |-> ReminderId(title, due_date, user_id), title |-> title,
                  due_date |-> due_date, user_id |-> user_id, status |-> "active"])

\* main.py:3861-3875   the list of the team after delete_reminder
delete_reminder(list, reminder_id) ==
    LET Kept(r) == r.id # reminder_id
    IN  SelectSeq(list, Kept)

\* main.py:3999-4003   the utterance names a moment
NamesMoment(um) == um \in {"rappel 6h11", "a 6h11"}

\* main.py:4024-4031   the matches of the three time patterns in the
\* utterance: "6h11" matches the first, and the second too after "a "
TimePatternMatches(um) ==
    IF um = "rappel 6h11" THEN 1
    ELSE IF um = "a 6h11" THEN 2
    ELSE 0

\* main.py:4030-4055   one add_reminder per match, with the title, the due
\* date of the detected time and the user of the caller
RECURSIVE AutoAdd(_, _, _)
AutoAdd(list, matches, user_id) ==
    IF matches = 0 THEN list
    ELSE AutoAdd(add_reminder(list, "Rappel automatique", "06:11", user_id),
                 matches - 1, user_id)

\* main.py:3999-4055   the reminders created by auto_update_portfolio
auto_reminders(list, um, user_id) ==
    IF NamesMoment(um) THEN AutoAdd(list, TimePatternMatches(um), user_id) ELSE list

NoReminderOp == [op |-> "none"]
ReminderOpIdle == lastReminderOp = NoReminderOp

IdFrame ==
    /\ UNCHANGED lastUpcoming
    /\ UNCHANGED ddVars
    /\ UNCHANGED thVars
    /\ UNCHANGED chVars
    /\ UNCHANGED memVars
    /\ UNCHANGED toolVars
    /\ UNCHANGED timeVars
    /\ UNCHANGED concVars
    /\ UNCHANGED ruleVars
    /\ UNCHANGED mergeVars
    /\ UNCHANGED showVars
    /\ UNCHANGED finVars

\* a call add_reminder(title, ..., due_date, user_id, team_id)
AddTitled(team_id, title, due_date, user_id) ==
    /\ reminder_files' = [reminder_files EXCEPT ![team_id] =
                             add_reminder(@, title, due_date, user_id)]
    /\ lastReminderOp' = [op |-> "add", team_id |-> team_id]
    /\ IdFrame

\* main.py:1977   a turn of a caller of the team creates reminders
AutoTurn(team_id, um, user_id) ==
    /\ reminder_files' = [reminder_files EXCEPT ![team_id] =
                             auto_reminders(@, um, user_id)]
    /\ lastReminderOp' = [op |-> "auto", team_id |-> team_id]
    /\ IdFrame

\* a call delete_reminder(reminder_id, team_id)
DeleteReminder(team_id, reminder_id) ==
    /\ reminder_files' = [reminder_files EXCEPT ![team_id] =
                             delete_reminder(@, reminder_id)]
    /\ lastReminderOp' =
          [op |-> "delete", team_id |-> team_id,
           removed |-> Len(reminder_files[team_id])
                           - Len(delete_reminder(reminder_files[team_id], reminder_id))]
    /\ IdFrame


(***************************************************************************)
(* end_chat_and_summarize called on two threads for the same conversation, *)
(* while turns go on.  The function takes no lock; a step is the part of   *)
(* the call between two reads or writes of the shared tables.  The callers *)
(* carry a token that the identity service accepts.                        *)
(***************************************************************************)
NoFinalizer == [pc |-> "idle", history |-> <<>>, status |-> "", overlap |-> FALSE]
FinalizerIdle == finalizers = [t \in Threads |-> NoFinalizer]

InFinalize(t) == finalizers[t].pc \notin {"idle", "done"}

FinalizerFrame ==
    /\ UNCHANGED <<cfg, turn, lastCall, finalized, owner>>
    /\ UNCHANGED ddVars
    /\ UNCHANGED thVars
    /\ UNCHANGED memVars
    /\ UNCHANGED toolVars
    /\ UNCHANGED remVars
    /\ UNCHANGED timeVars
    /\ UNCHANGED concVars
    /\ UNCHANGED ruleVars
    /\ UNCHANGED mergeVars
    /\ UNCHANGED showVars
    /\ UNCHANGED idVars

\* main.py:2706-2719   the call is made; it overlaps the calls in flight
FinBegin(t) ==
    /\ finalizers[t].pc = "idle"
    /\ finalizers' =
          [u \in Threads |->
              IF u = t
              THEN [finalizers[t] EXCEPT
                       !.pc = "lookup",
                       !.overlap = \E v \in Threads \ {t} : InFinalize(v)]
              ELSE IF InFinalize(u) THEN [finalizers[u] EXCEPT !.overlap = TRUE]
              ELSE finalizers[u]]
    /\ UNCHANGED <<active_chats, files, archive>>
    /\ FinalizerFrame

\* main.py:2722-2725   if chat_id not in active_chats: error; else the
\* transcript is read
FinLookup(t) ==
    /\ finalizers[t].pc = "lookup"
    /\ finalizers' =
          [finalizers EXCEPT ![t] =
              IF active_chats[ThreadChat].present
              THEN [@ EXCEPT !.pc = "summary",
                             !.history = active_chats[ThreadChat].msgs]
              ELSE [@ EXCEPT !.pc = "done", !.status = "error"]]
    /\ UNCHANGED <<active_chats, files, archive>>
    /\ FinalizerFrame

\* main.py:2749-2757   the summary request, which answers or raises
FinSummary(t, answers) ==
    /\ finalizers[t].pc = "summary"
    /\ finalizers' =
          [finalizers EXCEPT ![t] =
              IF answers THEN [@ EXCEPT !.pc = "write"]
              ELSE [@ EXCEPT !.pc = "done", !.status = "error"]]
    /\ UNCHANGED <<active_chats, files, archive>>
    /\ FinalizerFrame

\* main.py:2759-2782   the transcript file and the summary of the store
FinStore(t) ==
    /\ finalizers[t].pc = "write"
    /\ files' = [files EXCEPT ![ThreadChat] =
                    [present |-> TRUE,
                     lines |-> ConversationText(finalizers[t].history)]]
    /\ archive' = IndexSummary(archive, ThreadChat, FinalizeIdentity("db").team_id,
                               finalizers[t].history)
    /\ finalizers' = [finalizers EXCEPT ![t].pc = "delete"]
    /\ UNCHANGED active_chats
    /\ FinalizerFrame

\* the del of a missing key raises KeyError, which the handler of
\* main.py:2799-2804 turns into the error envelope
KeyErrorStatus == "error"

\* main.py:2789-2797   del active_chats[chat_id], then success
FinDelete(t) ==
    /\ finalizers[t].pc = "delete"
    /\ active_chats' = RemoveChat(active_chats, ThreadChat)
    /\ finalizers' =
          [finalizers EXCEPT ![t].pc = "done",
                             ![t].status = IF active_chats[ThreadChat].present
                                           THEN "success" ELSE KeyErrorStatus]
    /\ UNCHANGED <<files, archive>>
    /\ FinalizerFrame

\* main.py:2018-2061, 2144, 2702-2704   a turn on the conversation whose model
\* call raises: the conversation is created if it is not active, and the
\* user message stays
FailedTurn(um) ==
    /\ active_chats' =
          [active_chats EXCEPT ![ThreadChat] =
              [present |-> TRUE,
               msgs |-> Append(IF @.present THEN @.msgs ELSE <<SystemMsg(FALSE)>>,
                               UserMsg(um, FALSE))]]
    /\ UNCHANGED <<files, archive, finalizers>>
    /\ FinalizerFrame

(***************************************************************************)
(* The reminders listed in a turn (main.py:1982-1999): the upcoming query  *)
(* of the next 24 hours, the deduplication, then the first three.          *)
(***************************************************************************)
ListedHours == 24        \* main.py:1982   hours_ahead=24

\* main.py:3710-3712   the stored reminder with hours_until and minutes_until
\* written into it
AsDict(u) ==
    [title |-> u.reminder.title, description |-> u.reminder.description,
     hours_until |-> u.hours_until, minutes_until |-> u.minutes_until]

\* main.py:1982-1988   check_upcoming_reminders, then detect_duplicate_reminders
unique_upcoming(list, current_time) ==
    LET upcoming == check_upcoming_reminders(list, current_time, ListedHours)
    IN  detect_duplicate_reminders([k \in 1..Len(upcoming) |-> AsDict(upcoming[k])])

\* main.py:1998   upcoming_reminders[:3]
FirstThree(list) == SubSeq(list, 1, IF Len(list) < MaxShown THEN Len(list) ELSE MaxShown)

\* main.py:3586-3598   a stored reminder with its title and description
TitledReminder(team_id, title, at) ==
    [team_id |-> team_id, status |-> "active", due_kind |-> "naive", due |-> at,
     title |-> title, description |-> <<>>]

\* main.py:1982-1999   the turn of a caller of the team lists the reminders
ListTurn(team_id) ==
    /\ lastUpcoming.op = "none"
    /\ lastUpcoming' =
          [op |-> "list", team |-> team_id, hours |-> ListedHours, at |-> now,
           loaded |-> reminder_files[team_id],
           ret |-> unique_upcoming(reminder_files[team_id], now),
           listed |-> FirstThree(unique_upcoming(reminder_files[team_id], now))]
    /\ UNCHANGED reminder_files
    /\ UNCHANGED ddVars
    /\ UNCHANGED thVars
    /\ UNCHANGED chVars
    /\ UNCHANGED memVars
    /\ UNCHANGED toolVars
    /\ UNCHANGED timeVars
    /\ UNCHANGED concVars
    /\ UNCHANGED ruleVars
    /\ UNCHANGED mergeVars
    /\ UNCHANGED showVars
    /\ UNCHANGED idVars
    /\ UNCHANGED finVars

(***************************************************************************)
(* The specifications.                                                     *)
(***************************************************************************)
\* one turn of chat_with_mistral, on a new conversation
NextLoop ==
    \/ \E c \in ChatIds, um \in UserMessages, tok \in Tokens, rule \in BOOLEAN :
          /\ lastCall.op = "none"
          /\ TurnStart(c, um, tok, rule, FALSE, <<>>)
    \/ \E resp \in Responses : \E ext \in ExtFor(resp) :
          /\ resp \in OddResponses => turn.i < MaxVariedRounds
          /\ ModelCall(resp, ext)

InitLoop == DedupeIdle /\ ThrottleIdle /\ ChatInit /\ MemoryIdle /\ ToolIdle
    /\ ReminderIdle /\ TimeIdle /\ FlightIdle /\ RuleIdle /\ MergeIdle /\ ShowIdle /\ ReminderOpIdle /\ FinalizerIdle

SpecLoop == InitLoop /\ [][NextLoop]_vars

\* the responses of the model in SpecChat
ChatResponses ==
    {r \in FinalResponses : ~r.content.padded}
        \cup {PlainResponse, RaisedResponse}
        \cup {r \in OddResponses : r.tool_calls[1].name = "end_chat_and_summarize"}

ChatUserMessages == {"hello"}
ChatTokens == {"none", "bad"}

\* turns and finalize requests, one at a time
NextChat ==
    \/ \E c \in ChatIds, um \in ChatUserMessages, rule \in BOOLEAN :
          /\ Len(active_chats[c].msgs) <= MaxStartLen
          /\ TurnStart(c, um, "none", rule, FALSE, <<>>)
    \/ \E resp \in ChatResponses : \E ext \in ExtFor(resp) :
          /\ resp.kind = "tools" => turn.i < MaxToolRounds
          /\ ModelCall(resp, ext)
    \/ \E c \in ChatIds, tok \in ChatTokens, ext \in FinalizeExt :
          EndChat(c, tok, ext)

InitChat == DedupeIdle /\ ThrottleIdle /\ ChatInit /\ MemoryIdle /\ ToolIdle
    /\ ReminderIdle /\ TimeIdle /\ FlightIdle /\ RuleIdle /\ MergeIdle /\ ShowIdle /\ ReminderOpIdle /\ FinalizerIdle

SpecChat == InitChat /\ [][NextChat]_vars

NextDedupe == RunDedupe \/ RunDedupeAgain

InitDedupe == DedupeInit /\ ThrottleIdle /\ ChatIdle /\ MemoryIdle /\ ToolIdle
    /\ ReminderIdle /\ TimeIdle /\ FlightIdle /\ RuleIdle /\ MergeIdle /\ ShowIdle /\ ReminderOpIdle /\ FinalizerIdle

SpecDedupe == InitDedupe /\ [][NextDedupe]_vars

NextThrottle ==
    \/ \E c \in ChatIds, u \in CandidateLists : Check(c, u)
    \/ Tick

InitThrottle == DedupeIdle /\ ThrottleIdle /\ ChatIdle /\ MemoryIdle /\ ToolIdle
    /\ ReminderIdle /\ TimeIdle /\ FlightIdle /\ RuleIdle /\ MergeIdle /\ ShowIdle /\ ReminderOpIdle /\ FinalizerIdle

SpecThrottle == InitThrottle /\ [][NextThrottle]_vars

\* callers of two teams on the same conversation ids
TeamTokens == {"none", "db"}

TeamResponses ==
    {r \in FinalResponses : ~r.content.padded} \cup {RaisedResponse}

NextTeams ==
    \/ \E c \in ChatIds, tok \in TeamTokens :
          /\ Len(active_chats[c].msgs) <= MaxJoinLen
          /\ TurnStart(c, "hello", tok, FALSE, FALSE, <<>>)
    \/ \E resp \in TeamResponses : ModelCall(resp, DefaultExt)
    \/ \E c \in ChatIds, tok \in TeamTokens : EndChat(c, tok, DefaultExt)
    \/ \E c \in ChatIds, tok \in TeamTokens : ReadTranscript(c, tok)

InitTeams == DedupeIdle /\ ThrottleIdle /\ ChatInit /\ MemoryIdle /\ ToolIdle
    /\ ReminderIdle /\ TimeIdle /\ FlightIdle /\ RuleIdle /\ MergeIdle /\ ShowIdle /\ ReminderOpIdle /\ FinalizerIdle

SpecTeams == InitTeams /\ [][NextTeams]_vars

\* memories added and searched by callers of several teams
NextMemory ==
    \/ \E u \in UserIds, t \in TeamIds, v \in Visibilities, m \in StorageModes :
          AddMemory(u, t, v, m)
    \/ \E u \in UserIds, t \in TeamIds, m \in StorageModes : SearchMemories(u, t, m)
    \/ \E u \in UserIds, t \in TeamIds, m \in StorageModes : Retrieve(u, t, m)

InitMemory == DedupeIdle /\ ThrottleIdle /\ ChatIdle /\ MemoryIdle /\ ToolIdle
    /\ ReminderIdle /\ TimeIdle /\ FlightIdle /\ RuleIdle /\ MergeIdle /\ ShowIdle /\ ReminderOpIdle /\ FinalizerIdle

SpecMemory == InitMemory /\ [][NextMemory]_vars

(***************************************************************************)
(* The durable transcript: several turns of a conversation, with and       *)
(* without retrieved context, tool rounds, and finalize requests.          *)
(***************************************************************************)
MaxTranscriptLen == 3

TranscriptUserMessages == {"hello", "see conv_1", "Score: 5"}

TranscriptResponses ==
    {r \in FinalResponses : ~r.content.padded}
        \cup {MarkedResponse, PlainResponse, RaisedResponse}

NextTranscript ==
    \/ \E um \in TranscriptUserMessages, enh \in BOOLEAN :
          /\ Len(active_chats["c1"].msgs) <= MaxTranscriptLen
          /\ TurnStart("c1", um, "none", FALSE, enh, <<>>)
    \/ \E resp \in TranscriptResponses :
          /\ resp.kind = "tools" => turn.i < MaxToolRounds
          /\ ModelCall(resp, DefaultExt)
    \/ EndChat("c1", "none", DefaultExt)

InitTranscript == DedupeIdle /\ ThrottleIdle /\ ChatInit /\ MemoryIdle /\ ToolIdle
    /\ ReminderIdle /\ TimeIdle /\ FlightIdle /\ RuleIdle /\ MergeIdle /\ ShowIdle /\ ReminderOpIdle /\ FinalizerIdle

SpecTranscript == InitTranscript /\ [][NextTranscript]_vars

(***************************************************************************)
(* The dispatch of tool calls: any name, any arguments, any caller.        *)
(***************************************************************************)
NextDispatch ==
    \E name \in ToolNames, args \in ModelArgs, tok \in Tokens :
        Dispatch(name, args, tok)

InitDispatch == DedupeIdle /\ ThrottleIdle /\ ChatInit /\ MemoryIdle /\ ToolIdle
    /\ ReminderIdle /\ TimeIdle /\ FlightIdle /\ RuleIdle /\ MergeIdle /\ ShowIdle /\ ReminderOpIdle /\ FinalizerIdle

SpecDispatch == InitDispatch /\ [][NextDispatch]_vars

(***************************************************************************)
(* The reminder store: reminders are added, time passes, and the upcoming  *)
(* reminders are queried.                                                  *)
(***************************************************************************)
MaxStoredReminders == 2
MaxWait == 1

\* the due dates given to add_reminder: a kind and an offset from now
DueInputs ==
    ({"naive"} \X {-5, 18, 20, 90}) \cup {<<"aware", 20>>, <<"text", 20>>}
HoursAhead == {1, 24}

\* the number of reminders stored, all teams together
StoredCount ==
    LET RECURSIVE Sum(_)
        Sum(T) == IF T = {} THEN 0
                  ELSE LET t == CHOOSE x \in T : TRUE
                       IN  Len(reminder_files[t]) + Sum(T \ {t})
    IN  Sum(ReminderTeams)

NextReminders ==
    \/ \E t \in ReminderTeams, d \in DueInputs :
          /\ StoredCount < MaxStoredReminders
          /\ AddReminder(t, d[1], d[2])
    \/ \E t \in ReminderTeams, h \in HoursAhead : CheckUpcoming(t, h)
    \/ now < MaxWait /\ Tick

InitReminders ==
    DedupeIdle /\ ThrottleIdle /\ ChatIdle /\ MemoryIdle /\ ToolIdle
    /\ ReminderIdle /\ TimeIdle /\ FlightIdle /\ RuleIdle /\ MergeIdle /\ ShowIdle /\ ReminderOpIdle /\ FinalizerIdle

SpecReminders == InitReminders /\ [][NextReminders]_vars

(***************************************************************************)
(* The detection of a time of day, at any current time.                    *)
(***************************************************************************)
NextTime ==
    \/ \E hhmm \in TimesOfDay : Detect(hhmm)
    \/ \E hhmm \in TimesOfDay : AutoReminder(hhmm)

InitTime ==
    DedupeIdle /\ ThrottleIdle /\ ChatIdle /\ MemoryIdle /\ ToolIdle
    /\ ReminderIdle /\ TimeInit /\ FlightIdle /\ RuleIdle /\ MergeIdle /\ ShowIdle /\ ReminderOpIdle /\ FinalizerIdle

SpecTime == InitTime /\ [][NextTime]_vars

(***************************************************************************)
(* Two threads that request turns on the same conversation.                *)
(***************************************************************************)
NextThreads ==
    \E t \in Threads :
        \/ Begin(t)
        \/ Lookup(t)
        \/ Create(t)
        \/ AppendUser(t)
        \/ Answer(t)
        \/ Rest(t)

InitThreads ==
    DedupeIdle /\ ThrottleIdle /\ ChatIdle /\ MemoryIdle /\ ToolIdle
    /\ ReminderIdle /\ TimeIdle /\ FlightIdle /\ RuleIdle /\ MergeIdle /\ ShowIdle /\ ReminderOpIdle /\ FinalizerIdle

SpecThreads == InitThreads /\ [][NextThreads]_vars

(***************************************************************************)
(* Turns with upcoming reminders: the throttle check of each turn and the  *)
(* reminder list given to the model.                                       *)
(***************************************************************************)
MaxNotifyLen == 3

NotifyResponses ==
    {r \in FinalResponses : ~r.content.padded} \cup {RaisedResponse}

NextNotify ==
    \/ \E c \in ChatIds, upcoming \in CandidateLists :
          /\ Len(active_chats[c].msgs) <= MaxNotifyLen
          /\ TurnStart(c, "hello", "none", FALSE, FALSE, upcoming)
    \/ \E resp \in NotifyResponses : ModelCall(resp, DefaultExt)

InitNotify ==
    DedupeIdle /\ ThrottleIdle /\ ChatInit /\ MemoryIdle /\ ToolIdle
    /\ ReminderIdle /\ TimeIdle /\ FlightIdle /\ RuleIdle /\ MergeIdle /\ ShowIdle /\ ReminderOpIdle /\ FinalizerIdle

SpecNotify == InitNotify /\ [][NextNotify]_vars

(***************************************************************************)
(* SpecRules: the rules are written with update_user_portfolio and read by *)
(* check_user_portfolio_rules, on the portfolio file of a user.            *)
(***************************************************************************)
MaxRules == 2
MaxMessageLen == 2

\* the dictionaries written: distinct patterns, the k-th with the k-th response
RuleResponseAt(k) == IF k = 1 THEN "feur" ELSE "coubeh"
RuleLists ==
    {[k \in 1..Len(ps) |-> [pattern |-> ps[k], response |-> RuleResponseAt(k)]] :
        ps \in {qs \in UNION {[1..n -> Patterns] : n \in 0..MaxRules} :
                   \A a, c \in 1..Len(qs) : a # c => qs[a] # qs[c]}}
Utterances == UNION {[1..n -> Units] : n \in 0..MaxMessageLen}

NextRules ==
    \/ \E u \in RuleUsers, value \in RuleLists : UpdateRules(u, value)
    \/ \E u \in RuleUsers : BreakFile(u)
    \/ \E u \in RuleUsers, um \in Utterances : CheckRules(u, um)

InitRules ==
    DedupeIdle /\ ThrottleIdle /\ ChatIdle /\ MemoryIdle /\ ToolIdle
    /\ ReminderIdle /\ TimeIdle /\ FlightIdle /\ RuleIdle /\ MergeIdle /\ ShowIdle /\ ReminderOpIdle /\ FinalizerIdle

SpecRules == InitRules /\ [][NextRules]_vars


(***************************************************************************)
(* SpecMerge: the memories found by the search of the utterance and by the *)
(* searches of the three extra terms, merged, sorted and cut.              *)
(***************************************************************************)
NextMerge ==
    \E primary \in SearchResults, searches \in [1..ExtraTerms -> SearchResults] :
        RetrieveMemories(primary, searches)

InitMerge ==
    DedupeIdle /\ ThrottleIdle /\ ChatIdle /\ MemoryIdle /\ ToolIdle
    /\ ReminderIdle /\ TimeIdle /\ FlightIdle /\ RuleIdle /\ MergeIdle /\ ShowIdle /\ ReminderOpIdle /\ FinalizerIdle

SpecMerge == InitMerge /\ [][NextMerge]_vars


(***************************************************************************)
(* SpecShowRace: two threads check the reminders of the same conversation  *)
(* while the clock runs, for MaxGaps gaps of ten minutes.                  *)
(***************************************************************************)
MaxGaps == 2

NextShowRace ==
    \/ \E t \in Threads :
          \/ ShowBegin(t)
          \/ ShowFirstTest(t)
          \/ ShowFirstWrite(t)
          \/ ShowGapTest(t)
          \/ ShowLimitTest(t)
          \/ ShowUpdate(t)
    \/ now < MaxGaps * MinGapMinutes /\ ShowWait

InitShowRace ==
    DedupeIdle /\ ThrottleIdle /\ ChatIdle /\ MemoryIdle /\ ToolIdle
    /\ ReminderIdle /\ TimeIdle /\ FlightIdle /\ RuleIdle /\ MergeIdle /\ ShowIdle /\ ReminderOpIdle /\ FinalizerIdle

SpecShowRace == InitShowRace /\ [][NextShowRace]_vars


(***************************************************************************)
(* SpecUrgent: checks with one candidate, at the urgent limit or just      *)
(* after it, while the clock runs.                                         *)
(***************************************************************************)
UrgentLists == {<<UrgentMinutes>>, <<UrgentMinutes + 1>>}

NextUrgent ==
    \/ \E c \in ChatIds, u \in UrgentLists : Check(c, u)
    \/ Tick

InitUrgent == DedupeIdle /\ ThrottleIdle /\ ChatIdle /\ MemoryIdle /\ ToolIdle
    /\ ReminderIdle /\ TimeIdle /\ FlightIdle /\ RuleIdle /\ MergeIdle /\ ShowIdle /\ ReminderOpIdle /\ FinalizerIdle

SpecUrgent == InitUrgent /\ [][NextUrgent]_vars


(***************************************************************************)
(* SpecReminderIds: reminders are added by the tool and by turns, and      *)
(* deleted by id, in the stores of two teams.                              *)
(***************************************************************************)
MaxTeamReminders == 2
IdTitles == {"call"}
IdDueDates == {"09:00", "10:00"}
IdUsers == {"u1", "u2"}
IdUtterances == {"hello", "rappel 6h11", "a 6h11"}
KnownIds ==
    {ReminderId(t, d, u) : t \in IdTitles \cup {"Rappel automatique"},
                           d \in IdDueDates \cup {"06:11"}, u \in IdUsers}

NextReminderIds ==
    \/ \E team \in ReminderTeams, t \in IdTitles, d \in IdDueDates, u \in IdUsers :
          /\ Len(reminder_files[team]) < MaxTeamReminders
          /\ AddTitled(team, t, d, u)
    \/ \E team \in ReminderTeams, um \in IdUtterances, u \in IdUsers :
          /\ Len(reminder_files[team]) + TimePatternMatches(um) <= MaxTeamReminders
          /\ AutoTurn(team, um, u)
    \/ \E team \in ReminderTeams, id \in KnownIds : DeleteReminder(team, id)

InitReminderIds ==
    DedupeIdle /\ ThrottleIdle /\ ChatIdle /\ MemoryIdle /\ ToolIdle
    /\ ReminderIdle /\ TimeIdle /\ FlightIdle /\ RuleIdle /\ MergeIdle /\ ShowIdle /\ ReminderOpIdle /\ FinalizerIdle

SpecReminderIds == InitReminderIds /\ [][NextReminderIds]_vars


(***************************************************************************)
(* SpecFinalizeRace: each of two threads finalizes the conversation once,  *)
(* while failed turns keep it active.                                      *)
(***************************************************************************)
MaxRaceLen == 3

NextFinalizeRace ==
    \/ \E t \in Threads :
          \/ FinBegin(t)
          \/ FinLookup(t)
          \/ \E answers \in BOOLEAN : FinSummary(t, answers)
          \/ FinStore(t)
          \/ FinDelete(t)
    \/ \E um \in {"hello", "merci"} :
          /\ Len(active_chats[ThreadChat].msgs) < MaxRaceLen
          /\ FailedTurn(um)

InitFinalizeRace ==
    DedupeIdle /\ ThrottleIdle /\ ChatIdle /\ MemoryIdle /\ ToolIdle
    /\ ReminderIdle /\ TimeIdle /\ FlightIdle /\ RuleIdle /\ MergeIdle /\ ShowIdle /\ ReminderOpIdle /\ FinalizerIdle

SpecFinalizeRace == InitFinalizeRace /\ [][NextFinalizeRace]_vars


(***************************************************************************)
(* SpecListing: the store of a team holds up to MaxListed reminders, due   *)
(* in 17 or in 20 minutes; a turn lists them.                              *)
(***************************************************************************)
MaxListed == 4
ListedTitles == {<<"a">>, <<"b">>, <<"c">>, <<"d">>}
ListedDues == {17, 20}
ListedStores ==
    UNION {[1..n -> {TitledReminder("team-a", t, d) : t \in ListedTitles,
                                                       d \in ListedDues}] :
              n \in 0..MaxListed}

NextListing == \E team \in ReminderTeams : ListTurn(team)

\* the reminders were added before, by add_reminder
InitListing ==
    /\ DedupeIdle /\ ThrottleIdle /\ ChatIdle /\ MemoryIdle /\ ToolIdle
    /\ TimeIdle /\ FlightIdle /\ RuleIdle /\ MergeIdle /\ ShowIdle
    /\ ReminderOpIdle /\ FinalizerIdle
    /\ lastUpcoming = NoUpcoming
    /\ \E held \in ListedStores :
          reminder_files = [t \in ReminderTeams |->
                               IF t = "team-a" THEN held ELSE <<>>]

SpecListing == InitListing /\ [][NextListing]_vars

(***************************************************************************)
(* Claims about should_show_reminders (SpecThrottle).  A formula that      *)
(* quantifies over chat_id and the candidate list states what every call   *)
(* made in the current state returns and does.                             *)
(***************************************************************************)
CallNow(c, u) == should_show_reminders(reminder_notifications, c, u, now)

SomeWithin30(u) == \E i \in 1..Len(u) : u[i] <= 30
AllLater(u) == u # <<>> /\ \A i \in 1..Len(u) : u[i] > 30
NeverShown(c) == reminder_notifications[c].last_reminder_time = None

\* C2: should_show_reminders returns true whenever some candidate is due
\* within 30 minutes, whatever the state of the conversation's tracker.
C2_UrgentAlwaysShown ==
    \A c \in ChatIds, u \in CandidateLists : SomeWithin30(u) => CallNow(c, u).ret

\* an urgent check has returned true in a conversation whose tracker had
\* reached 3 shows, the last of them less than 10 minutes ago
C2_Witness ==
    /\ lastCheck.kind = "urgent" /\ lastCheck.ret
    /\ reminder_notifications[lastCheck.chat].reminder_count = 3
    /\ now - reminder_notifications[lastCheck.chat].last_reminder_time < 10

\* C3 as stated: in a conversation that has never shown a reminder, a call
\* with a non-empty candidate list returns true and sets the tracker to
\* (last-shown = now, shown-count = 1).
C3_Original ==
    \A c \in ChatIds, u \in CandidateLists :
        (u # <<>> /\ NeverShown(c)) =>
            LET r == CallNow(c, u) IN
            /\ r.ret
            /\ r.notifs[c].last_reminder_time = now
            /\ r.notifs[c].reminder_count = 1

\* C3 amended: such a call returns true; it sets the tracker to (now, 1) when
\* no candidate is due within 30 minutes, and otherwise leaves the tracker
\* with no last-shown time and a shown-count of 0.
C3_FirstShown ==
    \A c \in ChatIds, u \in CandidateLists :
        (u # <<>> /\ NeverShown(c)) =>
            LET r == CallNow(c, u) IN
            /\ r.ret
            /\ r.notifs[c].present
            /\ AllLater(u) => /\ r.notifs[c].last_reminder_time = now
                              /\ r.notifs[c].reminder_count = 1
            /\ SomeWithin30(u) => /\ r.notifs[c].last_reminder_time = None
                                  /\ r.notifs[c].reminder_count = 0
            /\ \A d \in ChatIds \ {c} : r.notifs[d] = reminder_notifications[d]

\* a first non-urgent check has just initialized its tracker, while the other
\* conversation has had only urgent shows
C3_Witness ==
    /\ lastCheck.kind = "later" /\ lastCheck.ret
    /\ reminder_notifications[lastCheck.chat].last_reminder_time = now
    /\ reminder_notifications[lastCheck.chat].reminder_count = 1
    /\ \E d \in ChatIds \ {lastCheck.chat} :
          /\ reminder_notifications[d].present
          /\ reminder_notifications[d].last_reminder_time = None

\* C4: with a last show at T and a shown-count below 3, a non-urgent check
\* less than 10 minutes after T returns false and changes nothing; one made
\* 10 minutes or more after T returns true, sets the last-shown time to now
\* and adds exactly one to the shown-count.
C4_GapThenShown ==
    \A c \in ChatIds, u \in CandidateLists :
        LET t == reminder_notifications[c] IN
        (AllLater(u) /\ t.last_reminder_time # None /\ t.reminder_count < 3) =>
            LET r == CallNow(c, u) IN
            IF now - t.last_reminder_time < 10
            THEN ~r.ret /\ r.notifs = reminder_notifications
            ELSE /\ r.ret
                 /\ r.notifs[c].last_reminder_time = now
                 /\ r.notifs[c].reminder_count = t.reminder_count + 1
                 /\ \A d \in ChatIds \ {c} : r.notifs[d] = reminder_notifications[d]

\* a second show has just happened, 10 minutes or more after the first
C4_Witness ==
    /\ lastCheck.kind = "later" /\ lastCheck.ret
    /\ reminder_notifications[lastCheck.chat].last_reminder_time = now
    /\ reminder_notifications[lastCheck.chat].reminder_count = 2

\* C5: the shown-count never exceeds 3, and once it is 3 every check whose
\* candidates are all more than 30 minutes away returns false and leaves it 3.
C5_LimitIsFinal ==
    /\ \A c \in ChatIds : reminder_notifications[c].reminder_count <= 3
    /\ \A c \in ChatIds, u \in CandidateLists :
          (AllLater(u) /\ reminder_notifications[c].reminder_count = 3) =>
              LET r == CallNow(c, u) IN
              ~r.ret /\ r.notifs[c].reminder_count = 3

\* a non-urgent check was refused 10 minutes or more after the third show
C5_Witness ==
    /\ lastCheck.kind = "later" /\ ~lastCheck.ret
    /\ reminder_notifications[lastCheck.chat].reminder_count = 3
    /\ now - reminder_notifications[lastCheck.chat].last_reminder_time >= 10

(***************************************************************************)
(* Claims about detect_duplicate_reminders (SpecDedupe).                   *)
(***************************************************************************)
NormPair(r) == <<Strip(Lower(r.title)), Strip(Lower(r.description))>>
Elems(s) == {s[i] : i \in 1..Len(s)}

\* C6: detect_duplicate_reminders is idempotent: applied to its own output
\* it returns that output, same elements in the same order.
C6_Idempotent == ddPc = "twice" => ddOut2 = ddOut

\* both calls were made on a list in which a later duplicate replaced an
\* earlier one
C6_Witness ==
    /\ ddPc = "twice"
    /\ \E i, j \in 1..Len(ddIn) :
          /\ i < j
          /\ NormPair(ddIn[i]) = NormPair(ddIn[j])
          /\ ddIn[j].minutes_until < ddIn[i].minutes_until
          /\ ddIn[j] \in Elems(ddOut)

\* C7: the output holds exactly one reminder for each normalized
\* (title, description) pair of the input, and that reminder has the smallest
\* minutes_until among the input reminders with that pair.
C7_OnePerPair ==
    ddPc # "input" =>
        \A p \in {NormPair(r) : r \in Elems(ddIn)} :
            /\ Cardinality({k \in 1..Len(ddOut) : NormPair(ddOut[k]) = p}) = 1
            /\ \A k \in 1..Len(ddOut) :
                  NormPair(ddOut[k]) = p =>
                      /\ ddOut[k] \in Elems(ddIn)
                      /\ \A r \in Elems(ddIn) :
                            NormPair(r) = p =>
                                ddOut[k].minutes_until <= r.minutes_until


(***************************************************************************)
(* Claims about the tool loop of chat_with_mistral (SpecLoop).             *)
(***************************************************************************)
\* the responses of the model recorded in a transcript
ResponsesOf(msgs) == SelectSeq(msgs, LAMBDA m : ~m.dict)

\* C1: a turn makes at most 20 model calls; when the model answers every
\* call, the turn returns the content (white space at the ends aside) of the
\* first response without a tool call if that response is among the first
\* 20, and otherwise an error envelope right after the 20th iteration.
C1_LoopCap ==
    /\ turn.pc = "loop" => turn.i < 20
    /\ (lastCall.op = "turn" /\ lastCall.calls >= 1 /\ ~lastCall.modelRaised) =>
          LET rs == ResponsesOf(active_chats[lastCall.chat].msgs)
              n == Len(rs)
          IN  /\ lastCall.calls <= 20
              /\ n = lastCall.calls
              /\ IF \E k \in 1..n : rs[k].tool_calls = <<>>
                 THEN /\ \A k \in 1..(n - 1) : rs[k].tool_calls # <<>>
                      /\ lastCall.status = "success"
                      /\ lastCall.response = StripContent(rs[n].content)
                 ELSE /\ lastCall.status = "error"
                      /\ lastCall.calls = 20

(***************************************************************************)
(* Claims about end_chat_and_summarize (SpecChat).  A formula that         *)
(* quantifies over the token and the collaborators states what every call  *)
(* made in the current state returns and does.                             *)
(***************************************************************************)
FinalizeNow(c, tok, ext) == end_chat_and_summarize(Stores, c, tok, ext)

SameStores(r) ==
    r.chats = active_chats /\ r.files = files /\ r.archive = archive

\* C8 as stated: once end_chat_and_summarize has succeeded for a conversation
\* and no turn has used the id since, every further call on the id returns
\* the error "not found" and changes no state.
C8_Original ==
    \A c \in finalized, tok \in Tokens, ext \in FinalizeExt :
        LET r == FinalizeNow(c, tok, ext) IN
        r.status = "error" /\ r.message = "not_found" /\ SameStores(r)

\* C8 amended: every such call returns an error and changes no state; the
\* error is "not found" when the caller's token resolves to an identity and
\* "invalid token" when it does not.
C8_SecondFinalize ==
    \A c \in finalized, tok \in Tokens, ext \in FinalizeExt :
        LET r == FinalizeNow(c, tok, ext) IN
        /\ r.status = "error"
        /\ r.message = IF tok = "bad" THEN "token_invalid" ELSE "not_found"
        /\ SameStores(r)

\* a second request on a finalized conversation has just been answered
\* "not found"
C8_Witness ==
    /\ lastCall.op = "end" /\ lastCall.chat \in finalized
    /\ lastCall.status = "error" /\ lastCall.message = "not_found"
    /\ ~active_chats[lastCall.chat].present
    /\ files[lastCall.chat].present

\* C9: when end_chat_and_summarize has reported success for a conversation,
\* the archive index of the caller's team holds the conversation's summary.
C9_SuccessIndexed ==
    (lastCall.op = "end" /\ lastCall.status = "success") =>
        [chat |-> lastCall.chat,
         team |-> FinalizeIdentity(lastCall.tok).team_id] \in archive

\* C10: a call of end_chat_and_summarize, made while no turn is in flight, in
\* which a step fails (identity check, summary generation, transcript write,
\* archive indexing) leaves the conversation in the active table with its
\* transcript unchanged.
C10_FailureKeepsActive ==
    \A c \in ChatIds, tok \in Tokens, ext \in FinalizeExt :
        (/\ turn.pc = "idle"
         /\ active_chats[c].present
         /\ \/ tok = "bad"
            \/ ext.summary = "raise"
            \/ ext.write = "raise"
            \/ ext.storage = "raise") =>
            FinalizeNow(c, tok, ext).chats[c] = active_chats[c]


(***************************************************************************)
(* Claims about the memory store (SpecMemory).                             *)
(***************************************************************************)
\* C11: a memory search (the tool or the automatic retrieval) by a caller
\* resolved to a team returns only memories stored under that team id.
C11_TeamIsolation ==
    lastSearch.op # "none" =>
        \A id \in lastSearch.results : stored[id].team_id = lastSearch.team

\* the memories stored under a team id
HeldFor(team_id) ==
    {id \in 1..Len(stored) : stored[id].team_id = team_id}

\* C12: a search returns the "team" memories of both users of the caller's
\* team (when every memory is in the backend that the search reads: the
\* vector store, reached, or the in-memory fallback), and never a "private"
\* memory of another user.
C12_VisibilityEnforced ==
    lastSearch.op = "search" =>
        /\ \A id \in lastSearch.results :
              stored[id].visibility = "private" =>
                  stored[id].user_id = lastSearch.user
        /\ ((lastSearch.mode = "ok" /\ memories = {}) \/ qdrant = {}) =>
              \A id \in HeldFor(lastSearch.team) :
                  stored[id].visibility = "team" => id \in lastSearch.results


(***************************************************************************)
(* Claims about the teams of a conversation (SpecTeams).                   *)
(***************************************************************************)
\* C13: a turn, a finalize or a transcript read on a conversation created by
\* a caller of one team, issued by a caller resolved to another team, is
\* rejected: no such turn reaches the tool loop, and no such finalize or
\* read succeeds.
C13_ConversationIsolation ==
    /\ turn.pc = "loop" => owner[turn.chat] = TurnIdentity(turn.tok).team_id
    /\ (/\ lastCall.op = "end"
        /\ owner[lastCall.chat] # ""
        /\ FinalizeIdentity(lastCall.tok).ok
        /\ FinalizeIdentity(lastCall.tok).team_id # owner[lastCall.chat]) =>
           lastCall.status # "success"
    /\ (/\ lastCall.op = "read"
        /\ owner[lastCall.chat] # ""
        /\ TurnIdentity(lastCall.tok).team_id # owner[lastCall.chat]) =>
           lastCall.status # "success"


(***************************************************************************)
(* Claims about the rule short-circuit of a turn (SpecLoop).               *)
(***************************************************************************)
\* a call of chat_with_mistral whose utterance matches a portfolio rule
RuleTurn ==
    \E c \in ChatIds, um \in UserMessages, tok \in Tokens :
        TurnStart(c, um, tok, TRUE, FALSE, <<>>)

\* the call has returned the canned response, without a model call and
\* without entering the tool loop
CannedReturned ==
    /\ lastCall'.op = "turn"
    /\ lastCall'.status = "success"
    /\ lastCall'.message = "portfolio_rule_triggered"
    /\ lastCall'.response = Content("canned")
    /\ lastCall'.calls = 0
    /\ turn'.pc = "idle"

\* C14 as stated: a turn whose utterance matches a portfolio rule returns the
\* rule's canned response with status success, with no model call and no
\* iteration of the tool loop.
C14_Original == [][RuleTurn => CannedReturned]_vars

\* C14 amended: it does so when the generative model is enabled and
\* importable; otherwise the rule engine is not consulted.
C14_RuleShortCircuit == [][(cfg = "on" /\ RuleTurn) => CannedReturned]_vars

\* a turn has been answered by a rule
C14_Witness ==
    /\ cfg = "on"
    /\ lastCall.op = "turn" /\ lastCall.message = "portfolio_rule_triggered"
    /\ lastCall.calls = 0 /\ turn.pc = "idle"


\* C15: when a rule answers a turn, the transcript of the conversation ends
\* with the user's utterance and the canned response.
C15_CannedExchangeRecorded ==
    (lastCall.op = "turn" /\ lastCall.message = "portfolio_rule_triggered") =>
        LET msgs == active_chats[lastCall.chat].msgs
            n == Len(msgs)
        IN  /\ n >= 2
            /\ msgs[n - 1].role = "user"
            /\ msgs[n].role = "assistant"
            /\ msgs[n].content = lastCall.response


(***************************************************************************)
(* Claims about the transcript file (SpecTranscript).                      *)
(***************************************************************************)
\* the user entries of a transcript file, in order
UserLines(lines) ==
    LET u == SelectSeq(lines, LAMBDA l : l.role = "Utilisateur")
    IN  [i \in 1..Len(u) |-> u[i].content]

\* the raw utterances of the turns of a conversation, in order
RawUtterances(msgs) ==
    LET u == SelectSeq(msgs, LAMBDA m : m.role = "user")
    IN  [i \in 1..Len(u) |-> Content(u[i].content.text)]

\* C16: after a turn that returned the model's answer, the user entries of
\* the conversation's transcript file are the raw utterances of its turns, in
\* order: the utterance of turn k is the k-th user entry.
C16_RawUtterancesKept ==
    \A c \in ChatIds :
        ( /\ turn.pc = "idle"
          /\ lastCall.op = "turn" /\ lastCall.chat = c
          /\ lastCall.status = "success" /\ lastCall.final
          /\ active_chats[c].present /\ files[c].present ) =>
            UserLines(files[c].lines) = RawUtterances(active_chats[c].msgs)


\* the texts of the system messages and of the tool results
SystemTexts == {SystemMsg(FALSE).content.text, SpecialInstruction.content.text}
ToolTexts == {"tool_result", "tool_error"}

\* C17: a conversation's transcript file holds only user and assistant
\* content: no system message, no tool result and no utterance augmented with
\* retrieved context, whether the save of a round trip or finalize wrote it.
C17_OnlyUserAndAssistant ==
    \A c \in ChatIds :
        files[c].present =>
            \A i \in 1..Len(files[c].lines) :
                /\ files[c].lines[i].content.text \notin SystemTexts \cup ToolTexts
                /\ ~files[c].lines[i].content.enhanced


(***************************************************************************)
(* Claims about the tool calls of a response (SpecLoop).                   *)
(***************************************************************************)
\* the responses that request one tool call that fails: an unknown tool,
\* missing arguments, arguments that are not JSON, an exception in the tool
FailingResponses ==
    {r \in Responses :
        /\ r.kind = "tools" /\ Len(r.tool_calls) = 1
        /\ \/ r.tool_calls[1].name \notin AvailableTools
           \/ r.tool_calls[1].args \in {"missing", "malformed"}
           \/ r.tool_calls[1].fails}

\* the failure is recorded as the tool result of the call and the turn goes on
Contained(resp) ==
    LET msgs == active_chats'[turn.chat].msgs IN
    /\ msgs[Len(msgs)] = ToolMsg(Envelope(resp.tool_calls[1], "tool_error"))
    /\ lastCall'.message # "exception"
    /\ LoopContinues(turn.i) => turn'.pc = "loop"

\* C18: a tool call that fails never aborts the turn: an error envelope is
\* recorded as the tool result of the call and the loop goes on to the next
\* model call.
C18_ToolFailureContained ==
    [][\A resp \in FailingResponses :
          ModelCall(resp, DefaultExt) => Contained(resp)]_vars


\* the responses of the model that carry tool calls
ToolResponses == {r \in Responses : r.kind = "tools"}

\* the transcript grew by the response and then one tool message per call,
\* in ascending order of call id
OnePerCallSorted(resp) ==
    LET before == active_chats[turn.chat].msgs
        after == active_chats'[turn.chat].msgs
        n == Len(resp.tool_calls)
        base == Len(before) + 1
    IN  /\ Len(after) = base + n
        /\ SubSeq(after, 1, Len(before)) = before
        /\ after[base] = ResponseMsg(resp)
        /\ \A k \in 1..n : after[base + k].role = "tool"
        /\ \A k \in 1..n : \E j \in 1..n :
              after[base + j].tool_call_id = resp.tool_calls[k].id
        /\ \A j, k \in 1..n :
              j < k => after[base + j].tool_call_id < after[base + k].tool_call_id

\* C19: for every response of the model that carries tool calls, one tool
\* message per requested call, linked by the call id, is appended to the
\* transcript before the next model call, in ascending order of call id.
C19_OneToolMessagePerCall ==
    [][\A resp \in ToolResponses : \A ext \in ExtFor(resp) :
          ModelCall(resp, ext) => OnePerCallSorted(resp)]_vars


(***************************************************************************)
(* Claims about the dispatch of tool calls (SpecDispatch).                 *)
(***************************************************************************)
\* C20: a tool of the registry is executed with user_id and team_id equal to
\* the caller's resolved identity exactly when it declares them: the
\* parameters it declares are passed the resolved values, never those of the
\* model, and a tool that declares no identity parameter is passed none.
C20_IdentityInjection ==
    (lastTool.op = "dispatch" /\ lastTool.name \in AvailableTools) =>
        LET identity == CallerIdentity(lastTool.tok) IN
        \A p \in {"user_id", "team_id"} :
            IF p \in Declares(lastTool.name)
            THEN lastTool.passed[p] = identity[p]
            ELSE lastTool.passed[p] = Absent


(***************************************************************************)
(* Claims about the failures of a turn (SpecLoop).                         *)
(***************************************************************************)
\* a turn requested by a caller without a token, or with a token the
\* identity service rejects
UnresolvedTurn ==
    \E c \in ChatIds, um \in UserMessages, tok \in {"none", "bad"},
       rule \in BOOLEAN :
        TurnStart(c, um, tok, rule, FALSE, <<>>)

\* the turn returned an error envelope at once and changed nothing
AbortedUnchanged ==
    /\ turn'.pc = "idle"
    /\ lastCall'.op = "turn" /\ lastCall'.status = "error" /\ lastCall'.calls = 0
    /\ active_chats' = active_chats
    /\ reminder_notifications' = reminder_notifications

\* C21: when the identity of the caller cannot be resolved, the turn is
\* aborted with an error envelope before any model call and creates or
\* changes no conversation and no reminder state.
C21_UnresolvedIdentityAborts == [][UnresolvedTurn => AbortedUnchanged]_vars


\* the turn returned an error envelope, made no model call and left the
\* transcripts as they were
FatalTurn ==
    /\ turn'.pc = "idle"
    /\ lastCall'.op = "turn" /\ lastCall'.status = "error" /\ lastCall'.calls = 0
    /\ active_chats' = active_chats

\* the turn returned the simulated answer after appending it to the transcript
SimulatedTurn(c) ==
    /\ turn'.pc = "idle"
    /\ lastCall'.op = "turn" /\ lastCall'.status = "success" /\ lastCall'.calls = 0
    /\ lastCall'.message = "test_simulation"
    /\ active_chats'[c].present
    /\ active_chats'[c].msgs =
          Append(active_chats[c].msgs, DictMsg("assistant", lastCall'.response))

\* C22 as stated: when the model is not configured, not enabled or not
\* importable, the turn returns an error envelope, makes no model call and
\* appends nothing to the transcript.
C22_Original ==
    [][\A c \in ChatIds, um \in UserMessages, tok \in Tokens, rule \in BOOLEAN :
          (cfg # "on" /\ TurnStart(c, um, tok, rule, FALSE, <<>>)) => FatalTurn]_vars

\* C22: when the model is enabled and configured but not importable, the turn
\* returns an error envelope, makes no model call and appends nothing to the
\* transcript; when it is not enabled or not configured, the turn makes no
\* model call, appends a simulated answer to the transcript and returns it in
\* a success envelope.
C22_ModelUnavailable ==
    [][\A c \in ChatIds, um \in UserMessages, tok \in Tokens, rule \in BOOLEAN :
          TurnStart(c, um, tok, rule, FALSE, <<>>) =>
              /\ cfg = "noimport" => FatalTurn
              /\ cfg = "off" => SimulatedTurn(c)]_vars

C22_Witness ==
    /\ cfg = "noimport"
    /\ lastCall.op = "turn" /\ lastCall.status = "error"
    /\ lastCall.message = "mistral_unavailable"
    /\ \A c \in ChatIds : ~active_chats[c].present


\* C23: chat_with_mistral never lets an exception cross its boundary: every
\* turn that returned, whatever the utterance and whatever step failed,
\* returned an envelope with a status (success or error) and a message.
C23_AlwaysEnvelope ==
    lastCall.op = "turn" =>
        /\ lastCall.status \in {"success", "error"}
        /\ lastCall.message # ""


(***************************************************************************)
(* Claims about the automatic finalization (SpecLoop).                     *)
(***************************************************************************)
\* the raw utterance of the last turn of a transcript
LastUtterance(msgs) ==
    LET u == SelectSeq(msgs, LAMBDA m : m.role = "user")
    IN  IF u = <<>> THEN "" ELSE u[Len(u)].content.text

\* C24: a turn that produced a final answer finalized the conversation in
\* that same turn when the utterance held a farewell keyword or the
\* transcript had reached 20 messages: such a conversation is no longer in
\* the active table when the turn has returned.
C24_AutoFinalized ==
    ( /\ turn.pc = "idle"
      /\ lastCall.op = "turn" /\ lastCall.final /\ lastCall.status = "success"
      /\ active_chats[lastCall.chat].present ) =>
        LET msgs == active_chats[lastCall.chat].msgs
        IN  /\ Len(msgs) < AutoFinalizeLen
            /\ ~HasFarewell(LastUtterance(msgs))


(***************************************************************************)
(* Claims about the reminder store (SpecReminders).                        *)
(***************************************************************************)
\* the reminders of the list that are active, have a due date that parses
\* and are due in [0, h] hours after the time at
DueWithin(list, at, h) ==
    {k \in 1..Len(list) :
        /\ list[k].status = "active"
        /\ list[k].due_kind \in {"naive", "aware"}
        /\ 0 <= list[k].due - at /\ list[k].due - at <= 60 * h}

\* C25: check_upcoming_reminders(team, h) returns exactly the active
\* reminders of the team whose due date parses and lies in [0, h] hours, each
\* with its minutes until due, ordered by non-decreasing time remaining.
C25_UpcomingExactAndOrdered ==
    lastUpcoming.op = "check" =>
        LET ret == lastUpcoming.ret
            list == lastUpcoming.loaded
            due == DueWithin(list, lastUpcoming.at, lastUpcoming.hours)
        IN  /\ Len(ret) = Cardinality(due)
            /\ \A k \in due : \E j \in 1..Len(ret) : ret[j].reminder = list[k]
            /\ \A j \in 1..Len(ret) :
                  ret[j].minutes_until = ret[j].reminder.due - lastUpcoming.at
            /\ \A i, j \in 1..Len(ret) :
                  i < j => ret[i].minutes_until <= ret[j].minutes_until


(***************************************************************************)
(* Claims about the detection of a time of day (SpecTime).                 *)
(***************************************************************************)
\* C26: for every current time and every HH:MM, the due timestamp detected
\* is today's HH:MM when that is strictly later than now and the HH:MM of the
\* next calendar day otherwise, and so lies in (now, now + 24h].
C26_TimeOfDayNormalized ==
    lastDetect.op # "none" =>
        LET today == Seconds(clock) - clock.second
                        - 60 * clock.minute + 60 * lastDetect.hhmm
            due == Seconds(lastDetect.target_time)
        IN  /\ ~lastDetect.raised
            /\ due = IF today > Seconds(clock) THEN today
                     ELSE today + 60 * MinutesPerDay
            /\ Seconds(clock) < due
            /\ due <= Seconds(clock) + 60 * MinutesPerDay


(***************************************************************************)
(* Claims about concurrent turns (SpecThreads).                            *)
(***************************************************************************)
\* the number of messages of the transcript equal to m
Occurrences(msgs, m) == Cardinality({k \in 1..Len(msgs) : msgs[k] = m})

\* C27: two turns on the same conversation id do not interleave their reads
\* and writes of the transcript, so no user message, system message or
\* answer of a turn is lost or overwritten: the utterance of a turn that has
\* appended it, and the answer of a turn that has returned, are in the
\* transcript.
C27_OneTurnInFlight ==
    LET msgs == active_chats[ThreadChat].msgs IN
    \A t \in Threads :
        /\ flights[t].pc \in {"call", "returned"} =>
              Occurrences(msgs, UserMsg(UtteranceOf(t), FALSE)) >= 1
        /\ flights[t].pc = "returned" =>
              Occurrences(msgs, ResponseMsg(AnswerOf(t))) >= 1


(***************************************************************************)
(* Claims about finalized conversations (SpecChat).                        *)
(***************************************************************************)
\* the summaries archived for a conversation id
ArchivedOf(arch, c) == {e \in arch : e.chat = c}

ReminderListSent(c) ==
    LET before == IF active_chats[c].present THEN Len(active_chats[c].msgs) ELSE 0
        after == active_chats'[c].msgs
    IN  \E k \in (before + 1)..Len(after) : after[k].content.reminders

\* C29: in every turn that reaches the model, the list of upcoming reminders
\* is part of the text the turn gives to the model exactly when the throttle
\* check of that turn returns true, on the first turn of a conversation and
\* on every later turn alike.
C29_ReminderListWhenShown ==
    [][\A c \in ChatIds, upcoming \in CandidateLists :
          (cfg = "on" /\ TurnStart(c, "hello", "none", FALSE, FALSE, upcoming)) =>
              (ReminderListSent(c) <=>
                  should_show_reminders(reminder_notifications, c, upcoming,
                                        now).ret)]_vars

(***************************************************************************)
(* Claims about the rule engine (SpecRules).                               *)
(***************************************************************************)
\* the positions of the stored rules whose pattern matches the utterance
MatchingRules(response_patterns, user_message) ==
    {k \in 1..Len(response_patterns) :
        PatternMatches(response_patterns[k].pattern, user_message)}

\* C30: the rule engine evaluates the user's patterns in stored order and
\* returns the response of the first pattern that matches the utterance; it
\* returns none when no pattern matches, and it leaves the stored rules as
\* they were.
C30_FirstMatchingRule ==
    lastRule.op = "check" =>
        LET response_patterns == lastRule.before.response_patterns
            hits == MatchingRules(response_patterns, lastRule.user_message)
        IN  /\ hits = {} => lastRule.ret = NoRule
            /\ hits # {} =>
                  LET first == CHOOSE k \in hits : \A j \in hits : k <= j
                  IN  lastRule.ret = RuleResponse(response_patterns[first].response)
            /\ portfolio_files[lastRule.user_id].response_patterns = response_patterns

\* two stored patterns match the utterance and the first one answered
C30_Witness ==
    /\ lastRule.op = "check"
    /\ Cardinality(MatchingRules(lastRule.before.response_patterns,
                                 lastRule.user_message)) = 2
    /\ lastRule.ret = RuleResponse("feur")

(***************************************************************************)
(* Claims about the merge of the memory searches (SpecMerge).              *)
(***************************************************************************)
\* every hit of every search of the last retrieval
AllHits ==
    {lastMerge.primary[k] : k \in 1..Len(lastMerge.primary)}
    \cup UNION {{lastMerge.searches[t][k] : k \in 1..Len(lastMerge.searches[t])} :
                   t \in 1..ExtraTerms}

\* C31: when the retrieval of a turn merges several memory searches, no
\* record is listed twice, and a record hit more than once is listed with the
\* highest adjusted priority score among its hits.
C31_MergeKeepsHigherScore ==
    lastMerge.op = "merge" =>
        LET out == lastMerge.memory_results
        IN  /\ \A a, b \in 1..Len(out) : a # b => out[a].memory_id # out[b].memory_id
            /\ \A k \in 1..Len(out) : \A h \in AllHits :
                  h.memory_id = out[k].memory_id =>
                      priority_score(out[k]) >= priority_score(h)

(***************************************************************************)
(* Claims about the grouping and the order of detect_duplicate_reminders   *)
(* (SpecDedupe).                                                           *)
(***************************************************************************)
\* the reminders of the input that share both normalized fields with r
SamePair(r) ==
    {j \in 1..Len(ddIn) : /\ NormTitle(ddIn[j]) = NormTitle(r)
                          /\ NormDescription(ddIn[j]) = NormDescription(r)}

\* C32: detect_duplicate_reminders groups by the pair (normalized title,
\* normalized description): a reminder whose pair differs from the pair of
\* every other reminder of the input is not a duplicate and remains in the
\* output.
C32_DifferentPairsBothRemain ==
    ddPc = "once" =>
        \A i \in 1..Len(ddIn) :
            SamePair(ddIn[i]) = {i} => \E k \in 1..Len(ddOut) : ddOut[k] = ddIn[i]

(***************************************************************************)
(* Claims about concurrent should_show_reminders checks (SpecShowRace).    *)
(***************************************************************************)
RECURSIVE TotalShown(_)
TotalShown(threads) ==
    IF threads = {} THEN 0
    ELSE LET t == CHOOSE u \in threads : TRUE
         IN  checks[t].shown + TotalShown(threads \ {t})

\* C33: when several should_show_reminders checks of the same conversation
\* run concurrently with no candidate within 30 minutes, the shown-count of
\* the conversation never exceeds 3 and at most 3 of the checks in total
\* return true.
C33_TrackerSafeUnderConcurrency ==
    /\ reminder_notifications[ShowChat].reminder_count <= MaxShown
    /\ TotalShown(Threads) <= MaxShown

UrgentCheck(c) ==
    /\ now' = now
    /\ lastCheck'.chat = c
    /\ lastCheck'.kind = "urgent"

\* C35 as stated: a show forced by the urgent rule leaves the tracker of the
\* conversation unchanged.
C35_Original ==
    [][\A c \in ChatIds :
          UrgentCheck(c) => reminder_notifications'[c] = reminder_notifications[c]]_vars

\* C35: a show forced by the urgent rule returns true and neither sets the
\* last-shown time nor increments the shown-count of the conversation (a
\* conversation without tracker gets one that records no show), and it leaves
\* the trackers of the other conversations as they were.
C35_UrgentShowNotCounted ==
    [][\A c \in ChatIds :
          UrgentCheck(c) =>
              /\ lastCheck'.ret
              /\ reminder_notifications'[c].last_reminder_time =
                     reminder_notifications[c].last_reminder_time
              /\ reminder_notifications'[c].reminder_count =
                     reminder_notifications[c].reminder_count
              /\ \A d \in ChatIds \ {c} :
                     reminder_notifications'[d] = reminder_notifications[d]]_vars

\* an urgent show after a counted one, later than it: the count is still 1
\* and the last-shown time is still the earlier one
C35_Witness ==
    /\ lastCheck.kind = "urgent"
    /\ lastCheck.ret
    /\ reminder_notifications[lastCheck.chat].reminder_count = 1
    /\ reminder_notifications[lastCheck.chat].last_reminder_time # None
    /\ reminder_notifications[lastCheck.chat].last_reminder_time < now

(***************************************************************************)
(* Claims about the working transcript after a turn (SpecLoop).            *)
(***************************************************************************)
\* the ids of the calls of an assistant message, and of the tool messages
\* that directly follow position i
CallIds(msg) == {msg.tool_calls[k].id : k \in 1..Len(msg.tool_calls)}
AnsweredBy(msgs, i) ==
    LET n == Len(msgs[i].tool_calls)
    IN  /\ i + n <= Len(msgs)
        /\ \A k \in 1..n : msgs[i + k].role = "tool"
        /\ {msgs[i + k].tool_call_id : k \in 1..n} = CallIds(msgs[i])
        /\ Cardinality(CallIds(msgs[i])) = n

WellFormed(msgs) ==
    /\ \A i \in 1..Len(msgs) :
          (msgs[i].role = "assistant" /\ msgs[i].tool_calls # <<>>) =>
              AnsweredBy(msgs, i)
    /\ \A i \in 1..Len(msgs) :
          msgs[i].role = "user" =>
              \E j \in (i + 1)..Len(msgs) : msgs[j].role = "assistant"

\* C36: after every turn, whether it succeeded or returned an error, the
\* working transcript of an active conversation is well-formed for the next
\* model call: every assistant message that carries tool calls is followed by
\* one tool message per call, and no user message is left without an
\* assistant answer after it.
C36_TranscriptWellFormed ==
    (turn.pc = "idle" /\ lastCall.op = "turn") =>
        \A c \in ChatIds :
            active_chats[c].present => WellFormed(active_chats[c].msgs)

(***************************************************************************)
(* Claims about the ids of the reminders (SpecReminderIds).                *)
(***************************************************************************)
\* C37: within the reminder store of a team no two reminders share an id,
\* after any sequence of add_reminder calls, automatic creations during
\* turns and delete_reminder calls; hence delete_reminder removes at most one
\* reminder.
C37_ReminderIdsUnique ==
    /\ \A team \in ReminderTeams :
          \A a, b \in 1..Len(reminder_files[team]) :
              a # b => reminder_files[team][a].id # reminder_files[team][b].id
    /\ lastReminderOp.op = "delete" => lastReminderOp.removed <= 1

(***************************************************************************)
(* Claims about concurrent finalizations (SpecFinalizeRace).               *)
(***************************************************************************)
\* C38: if two end_chat_and_summarize calls on the same active conversation
\* id run concurrently, at most one of them reports success.
C38_OneFinalizeSucceeds ==
    \A t, u \in Threads :
        (/\ t # u
         /\ finalizers[t].overlap
         /\ finalizers[u].overlap
         /\ finalizers[t].status = "success") =>
            finalizers[u].status # "success"

(***************************************************************************)
(* Claims about the reminders listed in a turn (SpecListing).              *)
(***************************************************************************)
OrderedByMinutes(list) ==
    \A k \in 1..(Len(list) - 1) : list[k].minutes_until <= list[k + 1].minutes_until

\* C39: deduplication keeps the ordering produced by the upcoming query, so
\* the reminders listed in a turn (at most 3) are ordered by non-decreasing
\* time-to-due and are the ones with the smallest time-to-due: no reminder
\* left out is due sooner than a listed one.
C39_ListedAreTheSoonest ==
    lastUpcoming.op = "list" =>
        /\ OrderedByMinutes(lastUpcoming.listed)
        /\ \A k \in 1..Len(lastUpcoming.listed) :
              \A j \in (Len(lastUpcoming.listed) + 1)..Len(lastUpcoming.ret) :
                  lastUpcoming.listed[k].minutes_until
                      <= lastUpcoming.ret[j].minutes_until

=============================================================================
